---- MODULE Spec2Model ----
(***************************************************************************)
(* Model of reqman (src/reqman/src/index.ts): schema validation, embedded  *)
(* schema metadata, the TOML record store and the record form.             *)
(*                                                                         *)
(* Strings are sequences of one-character strings, so that trimming and    *)
(* comparison are computed.  JavaScript values are tagged records:         *)
(*   [t |-> "undefined"], [t |-> "null"], [t |-> "num", v |-> n],          *)
(*   [t |-> "bool", v |-> b], [t |-> "str", v |-> chars],                  *)
(*   [t |-> "jsonstr", v |-> x]  (a string holding the JSON text of x),    *)
(*   [t |-> "arr", v |-> seq], [t |-> "obj", v |-> function on keys].      *)
(* Array indices are those of the source (from 0); element i of a          *)
(* sequence s is s[i + 1].                                                 *)
(***************************************************************************)
EXTENDS Integers, Sequences, FiniteSets, TLC

VARIABLES
    pc,                   \* position of the process / of the operation under check
    arg,                  \* input of the operation under check
    result,               \* value returned (or error thrown) by the operation under check
    file,                 \* content of the database file at dbPath
    schemaSource,         \* the parsed JSON of --schema, or NoSchemaPath
    schema,               \* main: schema
    data,                 \* loaded.data
    records,              \* startApp: records (the same array as loaded.data[schema.name])
    mode,                 \* startApp: mode
    filterValue,          \* startApp: filterValue
    filteredIndices,      \* startApp: filteredIndices
    selectedRecordIndex,  \* startApp: selectedRecordIndex
    editingIndex,         \* startApp: editingIndex
    listIndex,            \* list.getSelectedIndex()
    formValues,           \* startApp: formValues
    status                \* statusText.content (which message was set)

vars == <<pc, arg, result, file, schemaSource, schema, data, records, mode,
          filterValue, filteredIndices, selectedRecordIndex, editingIndex,
          listIndex, formValues, status>>

appVars == <<file, schemaSource, schema, data, records, mode, filterValue,
             filteredIndices, selectedRecordIndex, editingIndex, listIndex,
             formValues, status>>

-----------------------------------------------------------------------------
(* Bounds of the model *)

MaxFields == 2
MaxRecords == 2

-----------------------------------------------------------------------------
(* JavaScript values *)

Undefined == [t |-> "undefined"]
Null == [t |-> "null"]
Num(n) == [t |-> "num", v |-> n]
Bool(b) == [t |-> "bool", v |-> b]
Str(s) == [t |-> "str", v |-> s]
JsonStr(x) == [t |-> "jsonstr", v |-> x]
Arr(s) == [t |-> "arr", v |-> s]
Obj(f) == [t |-> "obj", v |-> f]

EmptyObject == [k \in {} |-> Undefined]

Min(S) == CHOOSE x \in S : \A y \in S : x <= y
Max(S) == CHOOSE x \in S : \A y \in S : x >= y

IsSpace(c) == c = " "

\* String.prototype.trim on a sequence of characters
Trim(s) ==
    LET keep == {i \in 1..Len(s) : ~IsSpace(s[i])}
    IN IF keep = {} THEN <<>> ELSE SubSeq(s, Min(keep), Max(keep))

\* typeof x === "string"
IsString(x) == x.t \in {"str", "jsonstr"}

\* x.trim() for a string value; JSON text produced by JSON.stringify has no
\* surrounding white space and is never blank
TrimValue(x) == IF x.t = "str" THEN Str(Trim(x.v)) ELSE x

\* obj[key], undefined when the key is absent (or obj is an array or a Date)
Get(obj, key) ==
    IF obj.t = "obj" /\ key \in DOMAIN obj.v THEN obj.v[key] ELSE Undefined

\* obj[key] = value on a map of keys to values
Put(f, key, value) ==
    [k \in (DOMAIN f) \cup {key} |-> IF k = key THEN value ELSE f[k]]

\* an object literal: the keys of f whose value is undefined are left out,
\* which is also what JSON.stringify keeps of an object
DefinedKeys(f) == {k \in DOMAIN f : f[k] # Undefined}
ObjectOf(f) == Obj([k \in DefinedKeys(f) |-> f[k]])

\* the key that every object literal inherits as an accessor of its prototype
ProtoKey == <<"_", "_", "p", "r", "o", "t", "o", "_", "_">>

\* Object.prototype, as read through that accessor
ObjectPrototype == [t |-> "obj", v |-> EmptyObject]

\* values[key] on an object literal: the own property, else what the prototype
\* gives
ReadProperty(f, key) ==
    IF key \in DOMAIN f THEN f[key]
    ELSE IF key = ProtoKey THEN ObjectPrototype
    ELSE Undefined

\* record[key] = value on an object literal: the accessor of the prototype takes
\* the assignment to its key, and no own property is made
WriteProperty(f, key, value) ==
    IF key = ProtoKey THEN f ELSE Put(f, key, value)

-----------------------------------------------------------------------------
(* Constants of the program *)

T_number == <<"n", "u", "m", "b", "e", "r">>
T_text == <<"t", "e", "x", "t">>
T_boolean == <<"b", "o", "o", "l", "e", "a", "n">>
T_date == <<"d", "a", "t", "e">>
T_time == <<"t", "i", "m", "e">>
T_choice == <<"c", "h", "o", "i", "c", "e">>

FIELD_TYPES == {T_number, T_text, T_boolean, T_date, T_time, T_choice}
REQMAN_META_TABLE == <<"_", "_", "r", "e", "q", "m", "a", "n">>
REQMAN_SCHEMA_VERSION == 1
REQMAN_SCHEMA_VERSION_KEY ==
    <<"s", "c", "h", "e", "m", "a", "_", "v", "e", "r", "s", "i", "o", "n">>
REQMAN_SCHEMA_JSON_KEY == <<"s", "c", "h", "e", "m", "a", "_", "j", "s", "o", "n">>
DefaultSchemaName == <<"r", "e", "c", "o", "r", "d", "s">>

-----------------------------------------------------------------------------
(* parseSchema *)

Throw(message) == [ok |-> FALSE, error |-> message]
Return(value) == [ok |-> TRUE, value |-> value]

\* !raw || typeof raw !== "object" is false: objects, arrays and Dates
IsObjectLike(x) == x.t \in {"obj", "arr", "date"}

\* the options of a choice field (lines 195-215)
parseOptions(optionsRaw) ==
    IF optionsRaw.t # "arr" \/ Len(optionsRaw.v) = 0
    THEN Throw("requires a non-empty options array")
    ELSE LET opts == optionsRaw.v
             bad == {i \in 1..Len(opts) :
                        \/ ~IsString(opts[i])
                        \/ TrimValue(opts[i]) = Str(<<>>)}
             parsedOptions == [i \in 1..Len(opts) |-> TrimValue(opts[i])]
         IN IF bad # {}
            THEN IF ~IsString(opts[Min(bad)])
                 THEN Throw("has non-string option")
                 ELSE Throw("has empty option")
            ELSE IF \E i, j \in 1..Len(opts) : i < j /\ parsedOptions[i] = parsedOptions[j]
                 THEN Throw("has duplicate option")
                 ELSE Return(Arr(parsedOptions))

\* the callback of fieldsRaw.map (lines 179-228)
parseField(field) ==
    IF ~IsObjectLike(field)
    THEN Throw("Schema field must be an object")
    ELSE LET nameRaw == Get(field, "name")
             fieldName == IF nameRaw.t = "str" THEN Trim(nameRaw.v) ELSE <<>>
             typeRaw == Get(field, "type")
             fieldType == IF typeRaw.t = "str" THEN Trim(typeRaw.v) ELSE <<>>
             optionsRaw == Get(field, "options")
             options == IF fieldType = T_choice
                        THEN parseOptions(optionsRaw)
                        ELSE IF optionsRaw # Undefined
                             THEN Throw("has options but is not of type 'choice'")
                             ELSE Return(Undefined)
             labelRaw == Get(field, "label")
             requiredRaw == Get(field, "required")
         IN IF fieldName = <<>>
            THEN Throw("Schema field is missing a name")
            ELSE IF fieldType \notin FIELD_TYPES
            THEN Throw("has unsupported type")
            ELSE IF ~options.ok
            THEN options
            ELSE Return([name |-> fieldName,
                         type |-> fieldType,
                         label |-> IF labelRaw.t = "str" THEN TrimValue(labelRaw) ELSE Undefined,
                         required |-> IF requiredRaw.t = "bool" THEN requiredRaw ELSE Undefined,
                         options |-> options.value])

\* lines 233-235 without the check
PrimaryKeyUndefinedInFields_Skipped(primaryKey, fields) == FALSE

\* primaryKey && !fields.find((field) => field.name === primaryKey)
PrimaryKeyUndefinedInFields(primaryKey, fields) ==
    /\ primaryKey # Undefined
    /\ primaryKey # Str(<<>>)
    /\ ~\E i \in 1..Len(fields) : fields[i].name = primaryKey.v

parseSchema(raw) ==
    IF ~IsObjectLike(raw)
    THEN Throw("Schema must be a JSON object.")
    ELSE LET nameRaw == Get(raw, "name")
             name == IF nameRaw.t = "str" /\ Trim(nameRaw.v) # <<>>
                     THEN Trim(nameRaw.v)
                     ELSE DefaultSchemaName
             fieldsRaw == Get(raw, "fields")
             parsed == [i \in 1..Len(fieldsRaw.v) |-> parseField(fieldsRaw.v[i])]
             failed == {i \in 1..Len(fieldsRaw.v) : ~parsed[i].ok}
             fields == [i \in 1..Len(fieldsRaw.v) |-> parsed[i].value]
             pkRaw == Get(raw, "primaryKey")
             primaryKey == IF pkRaw.t = "str" THEN TrimValue(pkRaw) ELSE Undefined
             descRaw == Get(raw, "description")
             description == IF descRaw.t = "str" THEN TrimValue(descRaw) ELSE Undefined
         IN IF name = REQMAN_META_TABLE
            THEN Throw("Schema name is reserved for Reqman metadata.")
            ELSE IF fieldsRaw.t # "arr"
            THEN Throw("Schema.fields must be an array.")
            ELSE IF failed # {}
            THEN parsed[Min(failed)]
            ELSE IF Len(fields) = 0
            THEN Throw("Schema.fields must include at least one field.")
            ELSE IF PrimaryKeyUndefinedInFields(primaryKey, fields)
            THEN Throw("Schema primaryKey is not defined in fields.")
            ELSE IF \E i, j \in 1..Len(fields) : i < j /\ fields[i].name = fields[j].name
            THEN Throw("Schema contains duplicate field name")
            ELSE Return([name |-> name,
                         fields |-> fields,
                         primaryKey |-> primaryKey,
                         description |-> description])

-----------------------------------------------------------------------------
(* JSON.stringify(schema, null, 2) and JSON.parse *)

Digits == <<"0", "1", "2", "3", "4", "5", "6", "7", "8", "9">>
IsDigit(c) == \E d \in 1..10 : Digits[d] = c
DigitValue(c) == (CHOOSE d \in 1..10 : Digits[d] = c) - 1

RECURSIVE DecimalValue(_)
DecimalValue(s) ==
    IF s = <<>> THEN 0
    ELSE 10 * DecimalValue(SubSeq(s, 1, Len(s) - 1)) + DigitValue(s[Len(s)])

\* the value JSON.stringify writes for a schema: keys holding undefined are left out
SchemaToJSON(s) ==
    ObjectOf([name |-> Str(s.name),
              fields |-> Arr([i \in 1..Len(s.fields) |->
                  ObjectOf([name |-> Str(s.fields[i].name),
                            type |-> Str(s.fields[i].type),
                            label |-> s.fields[i].label,
                            required |-> s.fields[i].required,
                            options |-> s.fields[i].options])]),
              primaryKey |-> s.primaryKey,
              description |-> s.description])

JSONStringify(s) == JsonStr(SchemaToJSON(s))

\* JSON.parse of a string: the text written by JSON.stringify gives its value
\* back; of the other texts of the model only a decimal number is JSON
JSONParse(text) ==
    IF text.t = "jsonstr" THEN Return(text.v)
    ELSE LET s == Trim(text.v)
         IN IF /\ s # <<>>
               /\ \A i \in 1..Len(s) : IsDigit(s[i])
               /\ (Len(s) = 1 \/ s[1] # "0")
            THEN Return(Num(DecimalValue(s)))
            ELSE Throw("not valid JSON")

-----------------------------------------------------------------------------
(* @iarna/toml: stringify and parse.  A file is absent, or holds blank      *)
(* text, text that is no TOML, or the text of a TOML document               *)

FileAbsent == [kind |-> "absent"]
FileBlank == [kind |-> "blank"]
FileGarbage == [kind |-> "garbage"]
FileToml(doc) == [kind |-> "toml", doc |-> doc]

\* a key is written unless its value is undefined or null
TomlWritten(f) == {k \in DOMAIN f : f[k].t \notin {"undefined", "null"}}

RECURSIVE TomlValue(_)
TomlValue(x) ==
    CASE x.t = "num" -> [t |-> "integer", v |-> x.v]
      [] x.t = "bool" -> [t |-> "boolean", v |-> x.v]
      [] x.t \in {"str", "jsonstr"} -> [t |-> "string", v |-> x]
      [] x.t = "date" -> [t |-> "datetime", v |-> x.v]
      [] x.t = "arr" -> [t |-> "array", v |-> [i \in 1..Len(x.v) |-> TomlValue(x.v[i])]]
      [] x.t = "obj" -> [t |-> "table", v |-> [k \in TomlWritten(x.v) |-> TomlValue(x.v[k])]]

RECURSIVE JsValue(_)
JsValue(x) ==
    CASE x.t = "integer" -> Num(x.v)
      [] x.t = "boolean" -> Bool(x.v)
      [] x.t = "string" -> x.v
      [] x.t = "datetime" -> [t |-> "date", v |-> x.v]
      [] x.t = "array" -> Arr([i \in 1..Len(x.v) |-> JsValue(x.v[i])])
      [] x.t = "table" -> Obj([k \in DOMAIN x.v |-> JsValue(x.v[k])])

\* stringifyToml(data): the text of an object without written keys is empty
stringifyToml(d) ==
    IF TomlWritten(d) = {} THEN FileBlank
    ELSE FileToml([k \in TomlWritten(d) |-> TomlValue(d[k])])

\* parseToml(raw)
parseToml(f) ==
    CASE f.kind = "blank" -> Return(EmptyObject)
      [] f.kind = "garbage" -> Throw("TomlError")
      [] f.kind = "toml" -> Return([k \in DOMAIN f.doc |-> JsValue(f.doc[k])])

-----------------------------------------------------------------------------
(* Metadata codec *)

\* current && typeof current === "object" && !Array.isArray(current) ? {...current} : {}
\* (the spread of a Date has no keys)
MetaCopy(d) ==
    IF REQMAN_META_TABLE \in DOMAIN d /\ d[REQMAN_META_TABLE].t = "obj"
    THEN d[REQMAN_META_TABLE].v
    ELSE EmptyObject

\* ensureSchemaMetadata that counts the embeddings in schema_version
ensureSchemaMetadata_VersionBumped(d, s) ==
    LET current == MetaCopy(d)
        version == IF Get(Obj(current), REQMAN_SCHEMA_VERSION_KEY).t = "num"
                   THEN Get(Obj(current), REQMAN_SCHEMA_VERSION_KEY).v + 1
                   ELSE REQMAN_SCHEMA_VERSION
        next1 == Put(current, REQMAN_SCHEMA_VERSION_KEY, Num(version))
        next2 == Put(next1, REQMAN_SCHEMA_JSON_KEY, JSONStringify(s))
    IN Put(d, REQMAN_META_TABLE, Obj(next2))

\* ensureSchemaMetadata that writes a section of its two keys only
ensureSchemaMetadata_SectionReplaced(d, s) ==
    LET next1 == Put(EmptyObject, REQMAN_SCHEMA_VERSION_KEY, Num(REQMAN_SCHEMA_VERSION))
        next2 == Put(next1, REQMAN_SCHEMA_JSON_KEY, JSONStringify(s))
    IN Put(d, REQMAN_META_TABLE, Obj(next2))

\* ensureSchemaMetadata that keeps the keys an existing section already has
ensureSchemaMetadata_KeepExisting(d, s) ==
    LET current == MetaCopy(d)
        next1 == IF REQMAN_SCHEMA_VERSION_KEY \in DOMAIN current THEN current
                 ELSE Put(current, REQMAN_SCHEMA_VERSION_KEY, Num(REQMAN_SCHEMA_VERSION))
        next2 == IF REQMAN_SCHEMA_JSON_KEY \in DOMAIN next1 THEN next1
                 ELSE Put(next1, REQMAN_SCHEMA_JSON_KEY, JSONStringify(s))
    IN Put(d, REQMAN_META_TABLE, Obj(next2))

\* ensureSchemaMetadata(data, schema): the data after the call
ensureSchemaMetadata(d, s) ==
    LET next1 == Put(MetaCopy(d), REQMAN_SCHEMA_VERSION_KEY, Num(REQMAN_SCHEMA_VERSION))
        next2 == Put(next1, REQMAN_SCHEMA_JSON_KEY, JSONStringify(s))
    IN Put(d, REQMAN_META_TABLE, Obj(next2))

\* createFresh(): the text written
createFresh(s) ==
    stringifyToml(Put(ensureSchemaMetadata(EmptyObject, s), s.name, Arr(<<>>)))

\* ensureDatabaseFile that leaves an existing document as it is
ensureDatabaseFile_ExistingUntouched(f, s) ==
    IF f.kind \in {"absent", "blank"}
    THEN Return(createFresh(s))
    ELSE IF ~parseToml(f).ok
    THEN Throw("Failed to parse database TOML")
    ELSE Return(f)

\* ensureDatabaseFile(dbPath, schema): the file after the call, or the error thrown
ensureDatabaseFile(f, s) ==
    IF f.kind \in {"absent", "blank"}
    THEN Return(createFresh(s))
    ELSE LET parsed == parseToml(f)
         IN IF ~parsed.ok
            THEN Throw("Failed to parse database TOML")
            ELSE Return(stringifyToml(ensureSchemaMetadata(parsed.value, s)))

\* lines 1083-1092 with every version accepted
VersionError_Accepting(meta) == Return(Get(meta, REQMAN_SCHEMA_VERSION_KEY))

\* lines 1083-1092: the error of the schema_version checks, if any
VersionError(meta) ==
    LET schemaVersion == Get(meta, REQMAN_SCHEMA_VERSION_KEY)
    IN IF schemaVersion # Undefined /\ schemaVersion.t # "num"
       THEN Throw("has invalid embedded schema version metadata")
       ELSE IF schemaVersion.t = "num" /\ schemaVersion.v # REQMAN_SCHEMA_VERSION
       THEN Throw("has unsupported embedded schema_version")
       ELSE Return(schemaVersion)

\* lines 1094-1109: schema_json read, parsed and validated
EmbeddedSchema(meta) ==
    LET schemaJson == Get(meta, REQMAN_SCHEMA_JSON_KEY)
    IN IF ~IsString(schemaJson) \/ TrimValue(schemaJson) = Str(<<>>)
       THEN Throw("does not include an embedded schema")
       ELSE LET schemaRaw == JSONParse(TrimValue(schemaJson))
            IN IF ~schemaRaw.ok
               THEN Throw("Embedded schema is not valid JSON")
               ELSE parseSchema(schemaRaw.value)

\* loadSchemaFromDatabase with schema_json read before the version is checked
loadSchemaFromDatabase_JsonFirst(f) ==
    IF f.kind = "absent" THEN Throw("ENOENT")
    ELSE IF f.kind = "blank"
    THEN Throw("is empty and does not include an embedded schema")
    ELSE LET parsed == parseToml(f)
             meta == Get(Obj(parsed.value), REQMAN_META_TABLE)
         IN IF ~parsed.ok
            THEN Throw("Failed to parse database TOML")
            ELSE IF meta.t # "obj"
            THEN Throw("does not include an embedded schema")
            ELSE IF ~EmbeddedSchema(meta).ok
            THEN EmbeddedSchema(meta)
            ELSE IF ~VersionError(meta).ok
            THEN VersionError(meta)
            ELSE EmbeddedSchema(meta)

\* loadSchemaFromDatabase(dbPath): the schema returned, or the error thrown
loadSchemaFromDatabase(f) ==
    IF f.kind = "absent" THEN Throw("ENOENT")
    ELSE IF f.kind = "blank"
    THEN Throw("is empty and does not include an embedded schema")
    ELSE LET parsed == parseToml(f)
             meta == Get(Obj(parsed.value), REQMAN_META_TABLE)
         IN IF ~parsed.ok
            THEN Throw("Failed to parse database TOML")
            ELSE IF meta.t # "obj"
            THEN Throw("does not include an embedded schema")
            ELSE IF ~VersionError(meta).ok
            THEN VersionError(meta)
            ELSE EmbeddedSchema(meta)

-----------------------------------------------------------------------------
(* Record store *)

\* normalizeRecord that keeps no key
normalizeRecord_Emptied(value) == Obj(EmptyObject)

\* normalizeRecord(value): the spread of an array is not taken, that of a Date is empty
normalizeRecord(value) ==
    IF value.t # "obj" THEN Obj(EmptyObject) ELSE value

\* loadDatabase that drops the entries that are not objects
loadDatabase_NonObjectsDropped(f, s) ==
    IF f.kind = "absent" THEN Throw("ENOENT")
    ELSE LET parsed == IF f.kind = "blank" THEN Return(EmptyObject) ELSE parseToml(f)
             tableValue == Get(Obj(parsed.value), s.name)
             IsObject(entry) == entry.t = "obj"
             recs == IF tableValue.t = "arr" THEN SelectSeq(tableValue.v, IsObject) ELSE <<>>
         IN IF ~parsed.ok
            THEN Throw("TomlError")
            ELSE Return([data |-> Put(parsed.value, s.name, Arr(recs)), records |-> recs])

\* loadDatabase(dbPath, schema): {data, records}, or the error thrown
loadDatabase(f, s) ==
    IF f.kind = "absent" THEN Throw("ENOENT")
    ELSE LET parsed == IF f.kind = "blank" THEN Return(EmptyObject) ELSE parseToml(f)
             tableValue == Get(Obj(parsed.value), s.name)
             recs == IF tableValue.t = "arr"
                     THEN [i \in 1..Len(tableValue.v) |-> normalizeRecord(tableValue.v[i])]
                     ELSE <<>>
         IN IF ~parsed.ok
            THEN Throw("TomlError")
            ELSE Return([data |-> Put(parsed.value, s.name, Arr(recs)), records |-> recs])

\* saveDatabase that writes the metadata but not the records
saveDatabase_TableNotSet(d, s, recs) ==
    LET next == ensureSchemaMetadata(d, s)
    IN [data |-> next, file |-> stringifyToml(next)]

\* saveDatabase that writes the document as it was before the records were set
saveDatabase_StaleRecords(d, s, recs) ==
    [data |-> ensureSchemaMetadata(Put(d, s.name, Arr(recs)), s),
     file |-> stringifyToml(ensureSchemaMetadata(d, s))]

\* saveDatabase(dbPath, data, schema, records): data after the call and the text written
saveDatabase(d, s, recs) ==
    LET next == ensureSchemaMetadata(Put(d, s.name, Arr(recs)), s)
    IN [data |-> next, file |-> stringifyToml(next)]

-----------------------------------------------------------------------------
(* Field coercion *)

\* Date.UTC(year, month - 1, day) read back as <<getUTCFullYear, getUTCMonth + 1,
\* getUTCDate>>: a year 0..99 means 1900 + year, months and days carry over
IsLeapYear(y) == (y % 4 = 0 /\ y % 100 # 0) \/ y % 400 = 0
DaysInMonth(y, m) ==
    IF m = 2 THEN (IF IsLeapYear(y) THEN 29 ELSE 28)
    ELSE IF m \in {4, 6, 9, 11} THEN 30 ELSE 31

RECURSIVE CarryDays(_, _, _)
CarryDays(y, m, d) ==
    IF d < 1
    THEN LET pm == IF m = 1 THEN 12 ELSE m - 1
             py == IF m = 1 THEN y - 1 ELSE y
         IN CarryDays(py, pm, d + DaysInMonth(py, pm))
    ELSE IF d > DaysInMonth(y, m)
    THEN CarryDays(IF m = 12 THEN y + 1 ELSE y, IF m = 12 THEN 1 ELSE m + 1,
                   d - DaysInMonth(y, m))
    ELSE <<y, m, d>>

DateUTC(year, month, day) ==
    LET y0 == IF year \in 0..99 THEN 1900 + year ELSE year
        y1 == IF month = 0 THEN y0 - 1 ELSE y0 + ((month - 1) \div 12)
        m1 == IF month = 0 THEN 12 ELSE ((month - 1) % 12) + 1
    IN CarryDays(y1, m1, day)

AllDigits(s) == \A i \in 1..Len(s) : IsDigit(s[i])

\* isValidDate(input)
isValidDate(input) ==
    /\ Len(input) = 10
    /\ input[5] = "-" /\ input[8] = "-"
    /\ AllDigits(SubSeq(input, 1, 4)) /\ AllDigits(SubSeq(input, 6, 7))
    /\ AllDigits(SubSeq(input, 9, 10))
    /\ LET year == DecimalValue(SubSeq(input, 1, 4))
           month == DecimalValue(SubSeq(input, 6, 7))
           day == DecimalValue(SubSeq(input, 9, 10))
       IN DateUTC(year, month, day) = <<year, month, day>>

\* isValidTime that takes the hour 24 for an hour of the day
isValidTime_HourUpTo24(input) ==
    /\ Len(input) \in {5, 8}
    /\ AllDigits(SubSeq(input, 1, 2)) /\ input[3] = ":" /\ AllDigits(SubSeq(input, 4, 5))
    /\ Len(input) = 8 => (input[6] = ":" /\ AllDigits(SubSeq(input, 7, 8)))
    /\ DecimalValue(SubSeq(input, 1, 2)) <= 24
    /\ DecimalValue(SubSeq(input, 4, 5)) <= 59
    /\ Len(input) = 8 => DecimalValue(SubSeq(input, 7, 8)) <= 59

\* isValidTime(input)
isValidTime(input) ==
    /\ Len(input) \in {5, 8}
    /\ AllDigits(SubSeq(input, 1, 2)) /\ input[3] = ":" /\ AllDigits(SubSeq(input, 4, 5))
    /\ Len(input) = 8 => (input[6] = ":" /\ AllDigits(SubSeq(input, 7, 8)))
    /\ LET hours == DecimalValue(SubSeq(input, 1, 2))
           minutes == DecimalValue(SubSeq(input, 4, 5))
           seconds == IF Len(input) = 8 THEN DecimalValue(SubSeq(input, 7, 8)) ELSE 0
       IN hours >= 0 /\ hours <= 23 /\ minutes >= 0 /\ minutes <= 59
          /\ seconds >= 0 /\ seconds <= 59

NaN == [t |-> "nan"]

\* Number(rawString) of a trimmed, non-empty string: decimal digits give their
\* value; every other text of the model has no numeric form
ToNumber(rawString) ==
    IF AllDigits(rawString) THEN Num(DecimalValue(rawString)) ELSE NaN

\* Boolean(raw)
ToBoolean(raw) ==
    CASE raw.t = "bool" -> raw.v
      [] raw.t = "str" -> raw.v # <<>>
      [] raw.t = "num" -> raw.v # 0
      [] raw.t \in {"undefined", "null", "nan"} -> FALSE
      [] OTHER -> TRUE

Assign(value) == [kind |-> "assign", value |-> value]
Omit == [kind |-> "omit"]
Reject(message) == [kind |-> "error", message |-> message]

\* one iteration of the loop of buildRecordFromForm with the text of a choice
\* field stored without the test of the options
CoerceField_OptionsNotTested(field, raw) ==
    IF field.type = T_boolean THEN Assign(Bool(ToBoolean(raw)))
    ELSE LET rawString == IF raw.t = "str" THEN Trim(raw.v) ELSE <<>>
         IN IF rawString = <<>>
            THEN (IF field.required = Bool(TRUE) THEN Reject("is required.") ELSE Omit)
            ELSE IF field.type = T_choice
            THEN Assign(Str(rawString))
            ELSE IF field.type = T_number
            THEN (IF ToNumber(rawString) = NaN
                  THEN Reject("must be a valid number.")
                  ELSE Assign(ToNumber(rawString)))
            ELSE IF field.type = T_date
            THEN (IF ~isValidDate(rawString)
                  THEN Reject("must be a valid date (YYYY-MM-DD).")
                  ELSE Assign(Str(rawString)))
            ELSE IF field.type = T_time
            THEN (IF ~isValidTime(rawString)
                  THEN Reject("must be a valid time (HH:MM or HH:MM:SS).")
                  ELSE Assign(Str(rawString)))
            ELSE Assign(Str(rawString))

\* one iteration of the loop of buildRecordFromForm with a number field taken as typed
CoerceField_NumberNotParsed(field, raw) ==
    IF field.type = T_boolean THEN Assign(Bool(ToBoolean(raw)))
    ELSE LET rawString == IF raw.t = "str" THEN Trim(raw.v) ELSE <<>>
         IN IF rawString = <<>>
            THEN (IF field.required = Bool(TRUE) THEN Reject("is required.") ELSE Omit)
            ELSE IF field.type = T_choice /\ \A i \in 1..Len(field.options.v) :
                                                field.options.v[i] # Str(rawString)
            THEN Reject("must be one of")
            ELSE IF field.type = T_date /\ ~isValidDate(rawString)
            THEN Reject("must be a valid date (YYYY-MM-DD).")
            ELSE IF field.type = T_time /\ ~isValidTime(rawString)
            THEN Reject("must be a valid time (HH:MM or HH:MM:SS).")
            ELSE Assign(Str(rawString))

\* one iteration of the loop of buildRecordFromForm (lines 428-489): the field is
\* assigned a value, left out, or reported
CoerceField(field, raw) ==
    IF field.type = T_boolean THEN Assign(Bool(ToBoolean(raw)))
    ELSE LET rawString == IF raw.t = "str" THEN Trim(raw.v) ELSE <<>>
             options == IF field.options = Undefined THEN <<>> ELSE field.options.v
         IN IF rawString = <<>>
            THEN (IF field.required = Bool(TRUE) THEN Reject("is required.") ELSE Omit)
            ELSE IF field.type = T_choice
            THEN (IF \A i \in 1..Len(options) : options[i] # Str(rawString)
                  THEN Reject("must be one of")
                  ELSE Assign(Str(rawString)))
            ELSE IF field.type = T_number
            THEN (IF ToNumber(rawString) = NaN
                  THEN Reject("must be a valid number.")
                  ELSE Assign(ToNumber(rawString)))
            ELSE IF field.type = T_date
            THEN (IF ~isValidDate(rawString)
                  THEN Reject("must be a valid date (YYYY-MM-DD).")
                  ELSE Assign(Str(rawString)))
            ELSE IF field.type = T_time
            THEN (IF ~isValidTime(rawString)
                  THEN Reject("must be a valid time (HH:MM or HH:MM:SS).")
                  ELSE Assign(Str(rawString)))
            ELSE Assign(Str(rawString))

\* the errors of buildRecordFromForm, were it to stop at the first failure
RECURSIVE ErrorsFrom_FirstOnly(_, _, _)
ErrorsFrom_FirstOnly(s, values, i) ==
    IF i > Len(s.fields) THEN <<>>
    ELSE LET outcome == CoerceField(s.fields[i], ReadProperty(values, s.fields[i].name))
         IN IF outcome.kind = "error"
            THEN <<[field |-> s.fields[i].name, message |-> outcome.message]>>
            ELSE ErrorsFrom_FirstOnly(s, values, i + 1)

RECURSIVE ErrorsFrom(_, _, _)
ErrorsFrom(s, values, i) ==
    IF i > Len(s.fields) THEN <<>>
    ELSE LET outcome == CoerceField(s.fields[i], ReadProperty(values, s.fields[i].name))
         IN (IF outcome.kind = "error"
             THEN <<[field |-> s.fields[i].name, message |-> outcome.message]>>
             ELSE <<>>) \o ErrorsFrom(s, values, i + 1)

\* buildRecordFromForm that reports no error
buildRecordFromForm_ErrorsDropped(s, values) ==
    LET outcome == [i \in 1..Len(s.fields) |->
                       CoerceField(s.fields[i], ReadProperty(values, s.fields[i].name))]
        assigned == {i \in 1..Len(s.fields) : outcome[i].kind = "assign"}
        FieldIndex(name) == CHOOSE i \in assigned : s.fields[i].name = name
    IN [record |-> Obj([name \in {s.fields[i].name : i \in assigned} \ {ProtoKey} |->
                           outcome[FieldIndex(name)].value]),
        errors |-> <<>>]

\* buildRecordFromForm(schema, values): {record, errors}
buildRecordFromForm(s, values) ==
    LET outcome == [i \in 1..Len(s.fields) |->
                       CoerceField(s.fields[i], ReadProperty(values, s.fields[i].name))]
        assigned == {i \in 1..Len(s.fields) : outcome[i].kind = "assign"}
        FieldIndex(name) == CHOOSE i \in assigned : s.fields[i].name = name
    IN [record |-> Obj([name \in {s.fields[i].name : i \in assigned} \ {ProtoKey} |->
                           outcome[FieldIndex(name)].value]),
        errors |-> ErrorsFrom(s, values, 1)]

-----------------------------------------------------------------------------
(* Display and filter *)

UpperLetters == <<"A", "B", "C", "D", "E", "F", "G", "H", "I", "J", "K", "L", "M",
                  "N", "O", "P", "Q", "R", "S", "T", "U", "V", "W", "X", "Y", "Z">>
LowerLetters == <<"a", "b", "c", "d", "e", "f", "g", "h", "i", "j", "k", "l", "m",
                  "n", "o", "p", "q", "r", "s", "t", "u", "v", "w", "x", "y", "z">>

\* String.prototype.toLowerCase
ToLowerCase(s) ==
    [i \in 1..Len(s) |->
        IF \E k \in 1..26 : UpperLetters[k] = s[i]
        THEN LowerLetters[CHOOSE k \in 1..26 : UpperLetters[k] = s[i]]
        ELSE s[i]]

RECURSIVE DecimalText(_)
DecimalText(n) ==
    IF n < 10 THEN <<Digits[n + 1]>>
    ELSE DecimalText(n \div 10) \o <<Digits[(n % 10) + 1]>>

\* String(value) of a number (not negative), a string, a boolean or an object
\* without a toString of its own
ToStringValue(value) ==
    CASE value.t = "num" -> DecimalText(value.v)
      [] value.t = "str" -> value.v
      [] value.t = "bool" -> IF value.v THEN <<"t", "r", "u", "e">>
                                        ELSE <<"f", "a", "l", "s", "e">>
      [] value.t = "obj" -> <<"[", "o", "b", "j", "e", "c", "t", " ", "O", "b", "j", "e", "c", "t", "]">>

\* String.prototype.includes
Includes(s, part) ==
    \E i \in 0..(Len(s) - Len(part)) : SubSeq(s, i + 1, i + Len(part)) = part

\* String.prototype.indexOf of one character, from 0, -1 when absent
IndexOf(s, c) ==
    IF \E i \in 1..Len(s) : s[i] = c
    THEN Min({i \in 1..Len(s) : s[i] = c}) - 1
    ELSE -1

\* the indices counted from 1
AllIndices_FromOne(recs) == [i \in 1..Len(recs) |-> i]

AllIndices(recs) == [i \in 1..Len(recs) |-> i - 1]

\* filterRecords that searches every field for the text after the colon when the
\* field named before it is not declared
filterRecords_GlobalFallback(recs, s, value) ==
    LET trimmed == Trim(value)
        lower == ToLowerCase(trimmed)
        delimiterIndex == IndexOf(lower, ":")
        fieldPart == Trim(SubSeq(lower, 1, delimiterIndex))
        valuePart == Trim(SubSeq(lower, delimiterIndex + 2, Len(lower)))
        named == {i \in 1..Len(s.fields) : ToLowerCase(s.fields[i].name) = fieldPart}
        Matches(rec, name, part) ==
            /\ ReadProperty(rec.v, name).t \notin {"undefined", "null"}
            /\ Includes(ToLowerCase(ToStringValue(ReadProperty(rec.v, name))), part)
        InField(i) == Matches(recs[i + 1], s.fields[Min(named)].name, valuePart)
        InAnyField(i) ==
            \E k \in 1..Len(s.fields) :
                Matches(recs[i + 1], s.fields[k].name,
                        IF delimiterIndex > 0 THEN valuePart ELSE lower)
    IN IF trimmed = <<>> THEN AllIndices(recs)
       ELSE IF delimiterIndex > 0 /\ valuePart = <<>> THEN AllIndices(recs)
       ELSE IF delimiterIndex > 0 /\ named # {}
       THEN SelectSeq(AllIndices(recs), InField)
       ELSE SelectSeq(AllIndices(recs), InAnyField)

\* filterRecords(records, schema, filterValue): the matching indices, from 0
filterRecords(recs, s, value) ==
    LET trimmed == Trim(value)
        lower == ToLowerCase(trimmed)
        delimiterIndex == IndexOf(lower, ":")
        fieldPart == Trim(SubSeq(lower, 1, delimiterIndex))
        valuePart == Trim(SubSeq(lower, delimiterIndex + 2, Len(lower)))
        named == {i \in 1..Len(s.fields) : ToLowerCase(s.fields[i].name) = fieldPart}
        Matches(rec, name, part) ==
            /\ ReadProperty(rec.v, name).t \notin {"undefined", "null"}
            /\ Includes(ToLowerCase(ToStringValue(ReadProperty(rec.v, name))), part)
        InField(i) == Matches(recs[i + 1], s.fields[Min(named)].name, valuePart)
        InAnyField(i) ==
            \E k \in 1..Len(s.fields) : Matches(recs[i + 1], s.fields[k].name, lower)
    IN IF trimmed = <<>> THEN AllIndices(recs)
       ELSE IF delimiterIndex > 0
       THEN (IF valuePart = <<>> THEN AllIndices(recs)
             ELSE IF named = {} THEN <<>>
             ELSE SelectSeq(AllIndices(recs), InField))
       ELSE SelectSeq(AllIndices(recs), InAnyField)

NoIndex == -1

\* updateList() that takes the position in the list for the index of the record
updateList_PositionSelected(recs, s, value, index) ==
    LET filtered == filterRecords(recs, s, value)
        boundedIndex == Max({0, Min({index, Len(filtered) - 1})})
    IN IF Len(filtered) = 0
       THEN [filteredIndices |-> filtered, listIndex |-> {index, 0},
             selectedRecordIndex |-> NoIndex]
       ELSE [filteredIndices |-> filtered, listIndex |-> {boundedIndex},
             selectedRecordIndex |-> boundedIndex]

\* updateList(): filteredIndices, the index the list holds and selectedRecordIndex.
\* An empty option list leaves the list's own index to the list control, which
\* keeps it or resets it to 0
updateList(recs, s, value, index) ==
    LET filtered == filterRecords(recs, s, value)
        boundedIndex == Max({0, Min({index, Len(filtered) - 1})})
    IN IF Len(filtered) = 0
       THEN [filteredIndices |-> filtered, listIndex |-> {index, 0},
             selectedRecordIndex |-> NoIndex]
       ELSE [filteredIndices |-> filtered, listIndex |-> {boundedIndex},
             selectedRecordIndex |-> filtered[boundedIndex + 1]]

\* resetFormValues(record): the value each control is given
resetFormValues(s, record) ==
    [name \in {s.fields[i].name : i \in 1..Len(s.fields)} \ {ProtoKey} |->
        LET field == s.fields[CHOOSE i \in 1..Len(s.fields) : s.fields[i].name = name]
            value == Get(record, name)
            text == IF value.t \in {"undefined", "null"} THEN <<>> ELSE ToStringValue(value)
        IN IF field.type = T_boolean THEN Bool(ToBoolean(value))
           ELSE IF field.type = T_choice
           THEN (IF \E i \in 1..Len(field.options.v) : field.options.v[i] = Str(text)
                 THEN Str(text)
                 ELSE field.options.v[1])
           ELSE Str(text)]

-----------------------------------------------------------------------------
(* main *)

\* no --schema argument
NoSchemaPath == Undefined

\* main that truncates the database file before it reads the embedded schema
main_TruncatedBeforeExtract(source, f) ==
    LET parsedSource == parseSchema(source)
        ensured == ensureDatabaseFile(f, parsedSource.value)
        embedded == loadSchemaFromDatabase(f)
        s == IF source # NoSchemaPath THEN parsedSource ELSE embedded
        f1 == IF source # NoSchemaPath THEN ensured.value ELSE f
        loaded == loadDatabase(f1, s.value)
    IN IF source # NoSchemaPath /\ ~parsedSource.ok
       THEN [ok |-> FALSE, error |-> parsedSource.error, file |-> f]
       ELSE IF source # NoSchemaPath /\ ~ensured.ok
       THEN [ok |-> FALSE, error |-> ensured.error, file |-> f]
       ELSE IF source = NoSchemaPath /\ f.kind = "absent"
       THEN [ok |-> FALSE, error |-> "Database file not found", file |-> f]
       ELSE IF source = NoSchemaPath /\ ~embedded.ok
       THEN [ok |-> FALSE, error |-> embedded.error, file |-> FileBlank]
       ELSE IF ~loaded.ok
       THEN [ok |-> FALSE, error |-> loaded.error, file |-> f1]
       ELSE [ok |-> TRUE, schema |-> s.value, file |-> f1, loaded |-> loaded.value]

\* main(): the schema, the file and the loaded database, or the error thrown
\* (file is then the file as main leaves it)
main(source, f) ==
    LET parsedSource == parseSchema(source)
        ensured == ensureDatabaseFile(f, parsedSource.value)
        embedded == loadSchemaFromDatabase(f)
        s == IF source # NoSchemaPath THEN parsedSource ELSE embedded
        f1 == IF source # NoSchemaPath THEN ensured.value ELSE f
        loaded == loadDatabase(f1, s.value)
    IN IF source # NoSchemaPath /\ ~parsedSource.ok
       THEN [ok |-> FALSE, error |-> parsedSource.error, file |-> f]
       ELSE IF source # NoSchemaPath /\ ~ensured.ok
       THEN [ok |-> FALSE, error |-> ensured.error, file |-> f]
       ELSE IF source = NoSchemaPath /\ f.kind = "absent"
       THEN [ok |-> FALSE, error |-> "Database file not found", file |-> f]
       ELSE IF source = NoSchemaPath /\ ~embedded.ok
       THEN [ok |-> FALSE, error |-> embedded.error, file |-> f]
       ELSE IF ~loaded.ok
       THEN [ok |-> FALSE, error |-> loaded.error, file |-> f1]
       ELSE [ok |-> TRUE, schema |-> s.value, file |-> f1, loaded |-> loaded.value]

-----------------------------------------------------------------------------
(* Inputs of parseSchema: untrusted JSON values *)

Seqs(S, n) == UNION {[1..k -> S] : k \in 0..n}

RawNames == {Undefined, Num(1), Str(<<" ">>), Str(<<"t", " ">>),
             Str(<<" ">> \o REQMAN_META_TABLE)}

RawField(name, type, options, required, label) ==
    ObjectOf([name |-> name, type |-> type, options |-> options,
              required |-> required, label |-> label])

RawFields ==
    { Num(1),
      RawField(Str(<<"a">>), Str(T_text), Undefined, Undefined, Undefined),
      RawField(Str(<<" ", "a">>), Str(T_number), Undefined, Bool(TRUE), Str(<<"A", " ">>)),
      RawField(Str(<<"b">>), Str(<<" ">> \o T_boolean), Undefined, Num(1), Undefined),
      RawField(Str(<<" ">>), Str(T_text), Undefined, Undefined, Undefined),
      RawField(Undefined, Str(T_text), Undefined, Undefined, Undefined),
      RawField(Str(<<"a">>), Str(<<"x">>), Undefined, Undefined, Undefined),
      RawField(Str(<<"a">>), Str(T_date), Arr(<<Str(<<"x">>)>>), Undefined, Undefined),
      RawField(Str(<<"c">>), Str(T_choice), Arr(<<Str(<<"x">>), Str(<<"y", " ">>)>>), Bool(FALSE), Undefined),
      RawField(Str(<<"c">>), Str(T_choice), Undefined, Undefined, Undefined),
      RawField(Str(<<"c">>), Str(T_choice), Arr(<<>>), Undefined, Undefined),
      RawField(Str(<<"c">>), Str(T_choice), Arr(<<Str(<<"x">>), Num(1)>>), Undefined, Undefined),
      RawField(Str(<<"c">>), Str(T_choice), Arr(<<Str(<<" ">>)>>), Undefined, Undefined),
      RawField(Str(<<"c">>), Str(T_choice), Arr(<<Str(<<"x">>), Str(<<" ", "x">>)>>), Undefined, Undefined) }

RawFieldLists == {Undefined, Str(<<"a">>)} \cup {Arr(s) : s \in Seqs(RawFields, MaxFields)}

RawPrimaryKeys == {Undefined, Num(1), Str(<<"a", " ">>), Str(<<"z">>), Str(<<" ">>), Str(<<>>)}

RawSchemas ==
    {Undefined, Null, Num(1), Str(<<"a">>), Arr(<<>>)} \cup
    { ObjectOf([name |-> n, fields |-> f, primaryKey |-> p, description |-> Undefined]) :
        n \in RawNames, f \in RawFieldLists, p \in RawPrimaryKeys }

-----------------------------------------------------------------------------
(* The application is idle in the specifications of single operations *)


\* startApp has not run
NotStarted ==
    /\ schema = Undefined
    /\ data = EmptyObject
    /\ records = <<>>
    /\ mode = "list"
    /\ filterValue = <<>>
    /\ filteredIndices = <<>>
    /\ selectedRecordIndex = NoIndex
    /\ editingIndex = NoIndex
    /\ listIndex = 0
    /\ formValues = EmptyObject
    /\ status = ""

AppIdle ==
    /\ file = FileAbsent
    /\ schemaSource = NoSchemaPath
    /\ NotStarted

-----------------------------------------------------------------------------
(* SpecSchema: parseSchema applied to every input of RawSchemas *)

InitSchema ==
    /\ pc = "call"
    /\ arg \in RawSchemas
    /\ result = Undefined
    /\ AppIdle

ParseSchemaCall ==
    /\ pc = "call"
    /\ result' = parseSchema(arg)
    /\ pc' = "returned"
    /\ UNCHANGED <<arg, appVars>>

NextSchema == ParseSchemaCall

SpecSchema == InitSchema /\ [][NextSchema]_vars

-----------------------------------------------------------------------------
(* Schema sources (the JSON read from --schema) and documents on disk *)

Src1 ==
    ObjectOf([name |-> Str(<<"t">>),
              fields |-> Arr(<<
                  RawField(Str(<<"a">>), Str(T_number), Undefined, Bool(TRUE), Undefined),
                  RawField(Str(<<"b">>), Str(T_text), Undefined, Undefined, Undefined)>>),
              primaryKey |-> Str(<<"a">>),
              description |-> Undefined])

Src2 ==
    ObjectOf([name |-> Undefined,
              fields |-> Arr(<<
                  RawField(Str(<<"c">>), Str(T_choice), Arr(<<Str(<<"x">>), Str(<<"y">>)>>),
                           Undefined, Undefined),
                  RawField(Str(<<"d">>), Str(T_boolean), Undefined, Bool(FALSE), Undefined)>>),
              primaryKey |-> Undefined,
              description |-> Str(<<"D", " ">>)])

Src3 ==
    ObjectOf([name |-> Str(<<"t">>),
              fields |-> Arr(<<
                  RawField(Str(<<"b">>), Str(T_text), Undefined, Undefined, Str(<<"B">>))>>),
              primaryKey |-> Str(<<" ">>),
              description |-> Undefined])

SrcInvalid ==
    ObjectOf([name |-> Str(<<"t">>), fields |-> Arr(<<>>),
              primaryKey |-> Undefined, description |-> Undefined])

ValidSources == {Src1, Src2, Src3}
Schemas == {parseSchema(src).value : src \in ValidSources}

Rec_a1bx == Obj(<<"a">> :> Num(1) @@ <<"b">> :> Str(<<"x">>))
Rec_a2 == Obj(<<"a">> :> Num(2))
Rec_empty == Obj(EmptyObject)
Rec_stale == Obj(<<"a">> :> Str(<<"x">>) @@ <<"z">> :> Bool(TRUE))

MetaVersions == {Undefined, Num(REQMAN_SCHEMA_VERSION), Num(REQMAN_SCHEMA_VERSION + 1), Str(<<"1">>)}
MetaJsons == {Undefined, Str(<<" ">>), Str(<<"a">>), Str(<<"7">>), JsonStr(SrcInvalid)}
                 \cup {JSONStringify(s) : s \in Schemas}
MetaExtras == {Undefined, Str(<<"n">>)}

MetaSection(version, json, extra) ==
    Obj([k \in DefinedKeys((REQMAN_SCHEMA_VERSION_KEY :> version)
                           @@ (REQMAN_SCHEMA_JSON_KEY :> json)
                           @@ (<<"k">> :> extra)) |->
            ((REQMAN_SCHEMA_VERSION_KEY :> version) @@ (REQMAN_SCHEMA_JSON_KEY :> json)
             @@ (<<"k">> :> extra))[k]])

MetaSections ==
    {Undefined, Num(3)} \cup
    {MetaSection(v, j, e) : v \in MetaVersions, j \in MetaJsons, e \in MetaExtras}

\* a parsed document: the metadata section, the table "t" and another section
Document(meta, table, other) ==
    LET f == (REQMAN_META_TABLE :> meta) @@ (<<"t">> :> table) @@ (<<"o">> :> other)
    IN [k \in DefinedKeys(f) |-> f[k]]

CodecTables == {Undefined, Arr(<<>>), Arr(<<Rec_a1bx>>)}

\* metadata sections of documents that also hold another top-level section
MetaSectionsBesideOther ==
    { Undefined, Num(3),
      MetaSection(Num(REQMAN_SCHEMA_VERSION + 1), Str(<<"a">>), Str(<<"n">>)),
      MetaSection(Num(REQMAN_SCHEMA_VERSION), JSONStringify(parseSchema(Src1).value), Undefined) }

CodecFiles ==
    {FileAbsent, FileBlank, FileGarbage} \cup
    {stringifyToml(Document(m, t, Undefined)) : m \in MetaSections, t \in CodecTables} \cup
    {stringifyToml(Document(m, t, Str(<<"n">>))) : m \in MetaSectionsBesideOther, t \in CodecTables}

-----------------------------------------------------------------------------
(* SpecCodec: ensureDatabaseFile and loadSchemaFromDatabase on every file *)

InitCodec ==
    /\ pc = "start"
    /\ arg \in CodecFiles
    /\ result = Undefined
    /\ file = arg
    /\ schema \in Schemas
    /\ schemaSource = NoSchemaPath
    /\ data = EmptyObject
    /\ records = <<>>
    /\ mode = "list"
    /\ filterValue = <<>>
    /\ filteredIndices = <<>>
    /\ selectedRecordIndex = NoIndex
    /\ editingIndex = NoIndex
    /\ listIndex = 0
    /\ formValues = EmptyObject
    /\ status = ""

codecFrame == <<arg, schemaSource, schema, data, records, mode, filterValue,
                filteredIndices, selectedRecordIndex, editingIndex, listIndex,
                formValues, status>>

\* ensureDatabaseFile(dbPath, schema)
EnsureDatabaseFileCall ==
    /\ pc = "start"
    /\ \E r \in {ensureDatabaseFile(file, schema)} :
          /\ result' = r
          /\ file' = IF r.ok THEN r.value ELSE file
          /\ pc' = IF r.ok THEN "ensured" ELSE "ensure failed"
    /\ UNCHANGED codecFrame

\* loadSchemaFromDatabase(dbPath), on the file as found or after ensureDatabaseFile
LoadSchemaFromDatabaseCall ==
    /\ pc \in {"start", "ensured"}
    /\ result' = loadSchemaFromDatabase(file)
    /\ pc' = IF pc = "ensured" THEN "reopened" ELSE "extracted"
    /\ UNCHANGED <<file, codecFrame>>

\* ensureDatabaseFile(dbPath, schema) called again with the same schema
EnsureDatabaseFileAgain ==
    /\ pc = "ensured"
    /\ \E r \in {ensureDatabaseFile(file, schema)} :
          /\ result' = r
          /\ file' = IF r.ok THEN r.value ELSE file
          /\ pc' = IF r.ok THEN "ensured twice" ELSE "ensure failed"
    /\ UNCHANGED codecFrame

NextCodec ==
    \/ EnsureDatabaseFileCall
    \/ LoadSchemaFromDatabaseCall
    \/ EnsureDatabaseFileAgain

SpecCodec == InitCodec /\ [][NextCodec]_vars

-----------------------------------------------------------------------------
(* Spec: the program from main() through the handlers of the record form *)

AppSources == {NoSchemaPath, Src1, Src2, SrcInvalid}

EmbeddedMeta(version, s) == MetaSection(version, JSONStringify(s), Undefined)
Schema1 == parseSchema(Src1).value

\* the runs explored: <<file found at dbPath, schema source>>
AppStarts ==
    { <<FileAbsent, Src1>>,
      <<FileGarbage, Src1>>,
      <<stringifyToml(Document(EmbeddedMeta(Num(1), Schema1), Arr(<<Rec_stale, Rec_a2>>),
                               Str(<<"n">>))), NoSchemaPath>>,
      <<stringifyToml(Document(EmbeddedMeta(Num(2), Schema1), Arr(<<Num(5)>>), Undefined)),
        Src1>>,
      <<stringifyToml(Document(EmbeddedMeta(Num(2), Schema1), Arr(<<Rec_a1bx>>), Undefined)),
        NoSchemaPath>>,
      <<stringifyToml(Document(Undefined, Arr(<<Rec_a1bx>>), Undefined)), Src2>> }

FormTexts == {<<>>, <<" ", "1">>, <<"x">>}
FilterTexts == {<<>>, <<"x">>, <<"A", ":", "1">>}

Init ==
    /\ pc = "start"
    /\ \E start \in AppStarts :
          /\ arg = start[1]
          /\ schemaSource = start[2]
    /\ file = arg
    /\ result = Undefined
    /\ NotStarted

\* main() up to renderer.start(), or up to process.exit(1)
Main ==
    /\ pc = "start"
    /\ \E m \in {main(schemaSource, file)} :
          IF m.ok
          THEN \E list \in {updateList(m.loaded.records, m.schema, <<>>, 0)} :
                  /\ pc' = "running"
                  /\ result' = Undefined
                  /\ file' = m.file
                  /\ schema' = m.schema
                  /\ data' = m.loaded.data
                  /\ records' = m.loaded.records
                  /\ filteredIndices' = list.filteredIndices
                  /\ listIndex' \in list.listIndex
                  /\ selectedRecordIndex' = list.selectedRecordIndex
                  /\ status' = "Loaded record(s)"
          ELSE /\ pc' = "failed"
               /\ result' = Throw(m.error)
               /\ file' = m.file
               /\ UNCHANGED <<schema, data, records, filteredIndices, listIndex,
                              selectedRecordIndex, status>>
    /\ UNCHANGED <<arg, schemaSource, mode, filterValue, editingIndex, formValues>>

\* filterInput INPUT
FilterInput ==
    /\ pc = "running" /\ mode = "list"
    /\ \E value \in FilterTexts :
          \E list \in {updateList(records, schema, value, listIndex)} :
             /\ filterValue' = value
             /\ filteredIndices' = list.filteredIndices
             /\ listIndex' \in list.listIndex
             /\ selectedRecordIndex' = list.selectedRecordIndex
    /\ UNCHANGED <<pc, arg, result, file, schemaSource, schema, data, records, mode,
                   editingIndex, formValues, status>>

\* list SELECTION_CHANGED
SelectionChanged ==
    /\ pc = "running" /\ mode = "list"
    /\ \E index \in 0..(Len(filteredIndices) - 1) :
          /\ listIndex' = index
          /\ selectedRecordIndex' = filteredIndices[index + 1]
    /\ UNCHANGED <<pc, arg, result, file, schemaSource, schema, data, records, mode,
                   filterValue, filteredIndices, editingIndex, formValues, status>>

\* openNewRecord()
OpenNewRecord ==
    /\ pc = "running" /\ mode = "list"
    /\ Len(records) < MaxRecords
    /\ editingIndex' = NoIndex
    /\ formValues' = resetFormValues(schema, Undefined)
    /\ status' = "Creating new record."
    /\ mode' = "new"
    /\ UNCHANGED <<pc, arg, result, file, schemaSource, schema, data, records,
                   filterValue, filteredIndices, selectedRecordIndex, listIndex>>

\* openEditRecord()
OpenEditRecord ==
    /\ pc = "running" /\ mode = "list"
    /\ IF selectedRecordIndex = NoIndex
       THEN /\ status' = "Select a record to edit."
            /\ UNCHANGED <<editingIndex, formValues, mode>>
       ELSE /\ editingIndex' = selectedRecordIndex
            /\ formValues' = resetFormValues(schema, records[selectedRecordIndex + 1])
            /\ status' = "Editing record"
            /\ mode' = "edit"
    /\ UNCHANGED <<pc, arg, result, file, schemaSource, schema, data, records,
                   filterValue, filteredIndices, selectedRecordIndex, listIndex>>

\* records.splice(0, 1): the first record is removed, whichever is selected
Splice_First(recs, index) == [i \in 1..(Len(recs) - 1) |-> recs[i + 1]]

\* records.splice(index, 1)
Splice(recs, index) ==
    [i \in 1..(Len(recs) - 1) |-> IF i <= index THEN recs[i] ELSE recs[i + 1]]

\* deleteRecord() without the test of the selection: splice(null, 1) removes
\* the first record
DeleteRecord_SelectionNotTested ==
    /\ pc = "running" /\ mode = "list"
    /\ \E index \in {IF selectedRecordIndex = NoIndex THEN 0 ELSE selectedRecordIndex} :
       \E recs \in {IF Len(records) = 0 THEN records ELSE Splice(records, index)} :
       \E saved \in {saveDatabase(data, schema, recs)} :
       \E list \in {updateList(recs, schema, filterValue, listIndex)} :
          /\ records' = recs
          /\ data' = saved.data
          /\ file' = saved.file
          /\ status' = "Deleted record"
          /\ filteredIndices' = list.filteredIndices
          /\ listIndex' \in list.listIndex
          /\ selectedRecordIndex' = list.selectedRecordIndex
    /\ UNCHANGED <<pc, arg, result, schemaSource, schema, mode, filterValue,
                   editingIndex, formValues>>

\* deleteRecord()
DeleteRecord ==
    /\ pc = "running" /\ mode = "list"
    /\ IF selectedRecordIndex = NoIndex
       THEN /\ status' = "Select a record to delete."
            /\ UNCHANGED <<file, data, records, filteredIndices, listIndex,
                           selectedRecordIndex>>
       ELSE \E recs \in {Splice(records, selectedRecordIndex)} :
            \E saved \in {saveDatabase(data, schema, recs)} :
            \E list \in {updateList(recs, schema, filterValue, listIndex)} :
               /\ records' = recs
               /\ data' = saved.data
               /\ file' = saved.file
               /\ status' = "Deleted record"
               /\ filteredIndices' = list.filteredIndices
               /\ listIndex' \in list.listIndex
               /\ selectedRecordIndex' = list.selectedRecordIndex
    /\ UNCHANGED <<pc, arg, result, schemaSource, schema, mode, filterValue,
                   editingIndex, formValues>>

\* the INPUT / SELECTION_CHANGED handlers of the form controls
FormInput ==
    /\ pc = "running" /\ mode # "list"
    /\ \E i \in 1..Len(schema.fields) :
          LET field == schema.fields[i]
              values == IF field.type = T_boolean THEN {Bool(TRUE), Bool(FALSE)}
                        ELSE IF field.type = T_choice
                        THEN {field.options.v[k] : k \in 1..Len(field.options.v)}
                        ELSE {Str(text) : text \in FormTexts}
          IN \E value \in values : formValues' = WriteProperty(formValues, field.name, value)
    /\ UNCHANGED <<pc, arg, result, file, schemaSource, schema, data, records, mode,
                   filterValue, filteredIndices, selectedRecordIndex, editingIndex,
                   listIndex, status>>

\* records[index] = {...records[index], ...record}: the fields are patched
ReplaceAt_Patched(recs, index, record) ==
    [i \in 1..Len(recs) |->
        IF i = index + 1
        THEN Obj([k \in (DOMAIN recs[i].v) \cup (DOMAIN record.v) |->
                     IF k \in DOMAIN record.v THEN record.v[k] ELSE recs[i].v[k]])
        ELSE recs[i]]

\* records[index] = record
ReplaceAt(recs, index, record) ==
    [i \in 1..Len(recs) |-> IF i = index + 1 THEN record ELSE recs[i]]

\* saveForm()
SaveForm ==
    /\ pc = "running" /\ mode # "list"
    /\ \E built \in {buildRecordFromForm(schema, formValues)} :
          IF Len(built.errors) > 0
          THEN /\ status' = "Validation errors"
               /\ UNCHANGED <<file, data, records, mode, filteredIndices, listIndex,
                              selectedRecordIndex>>
          ELSE \E written \in {mode = "new" \/ (mode = "edit" /\ editingIndex # NoIndex)} :
               \E recs \in {IF mode = "new" THEN Append(records, built.record)
                            ELSE IF written
                            THEN ReplaceAt(records, editingIndex, built.record)
                            ELSE records} :
               \E saved \in {saveDatabase(data, schema, recs)} :
               \E list \in {updateList(recs, schema, filterValue, listIndex)} :
                  /\ records' = recs
                  /\ data' = IF written THEN saved.data ELSE data
                  /\ file' = IF written THEN saved.file ELSE file
                  /\ status' = IF mode = "new" THEN "Added record"
                               ELSE IF written THEN "Updated record" ELSE status
                  /\ filteredIndices' = list.filteredIndices
                  /\ listIndex' \in list.listIndex
                  /\ selectedRecordIndex' = list.selectedRecordIndex
                  /\ mode' = "list"
    /\ UNCHANGED <<pc, arg, result, schemaSource, schema, filterValue, editingIndex,
                   formValues>>

\* cancelForm()
CancelForm ==
    /\ pc = "running" /\ mode # "list"
    /\ status' = "Edit cancelled."
    /\ mode' = "list"
    /\ UNCHANGED <<pc, arg, result, file, schemaSource, schema, data, records,
                   filterValue, filteredIndices, selectedRecordIndex, editingIndex,
                   listIndex, formValues>>

Next ==
    \/ Main
    \/ FilterInput
    \/ SelectionChanged
    \/ OpenNewRecord
    \/ OpenEditRecord
    \/ DeleteRecord
    \/ FormInput
    \/ SaveForm
    \/ CancelForm

Spec == Init /\ [][Next]_vars

-----------------------------------------------------------------------------
(* SpecStartup: main() on every file and every schema source *)

InitStartup ==
    /\ pc = "start"
    /\ arg \in CodecFiles
    /\ file = arg
    /\ schemaSource \in AppSources
    /\ result = Undefined
    /\ NotStarted

NextStartup == Main

SpecStartup == InitStartup /\ [][NextStartup]_vars

-----------------------------------------------------------------------------
(* SpecExternal: the session, with another process that rewrites the file *)

ExternalStarts ==
    { <<FileAbsent, Src1>>,
      <<stringifyToml(Document(EmbeddedMeta(Num(1), Schema1), Arr(<<Rec_stale, Rec_a2>>),
                               Str(<<"n">>))), NoSchemaPath>> }

\* what the other process leaves at dbPath: text that is no TOML, or a document
\* with other records and another section
ExternalFiles ==
    { FileGarbage,
      stringifyToml(Document(EmbeddedMeta(Num(1), Schema1), Arr(<<Rec_a1bx>>),
                             Str(<<"e">>))) }

InitExternal ==
    /\ pc = "start"
    /\ \E start \in ExternalStarts :
          /\ arg = start[1]
          /\ schemaSource = start[2]
    /\ file = arg
    /\ result = Undefined
    /\ NotStarted

\* the other process writes the file while the session runs; the session has no
\* watcher and no handler for it, and result keeps what was written last
ExternalWrite ==
    /\ pc = "running"
    /\ \E f \in ExternalFiles :
          /\ f # file
          /\ file' = f
          /\ result' = f
    /\ UNCHANGED <<pc, arg, schemaSource, schema, data, records, mode, filterValue,
                   filteredIndices, selectedRecordIndex, editingIndex, listIndex,
                   formValues, status>>

NextExternal == Next \/ ExternalWrite

SpecExternal == InitExternal /\ [][NextExternal]_vars

-----------------------------------------------------------------------------
(* SpecStore: saveDatabase and loadDatabase *)

\* the values a record can hold for a field
FieldValues(field) ==
    CASE field.type = T_number -> {Num(1), Num(20)}
      [] field.type = T_text -> {Str(<<"x">>), Str(<<"1">>)}
      [] field.type = T_boolean -> {Bool(TRUE), Bool(FALSE)}
      [] field.type = T_choice -> {field.options.v[i] : i \in 1..Len(field.options.v)}
      [] field.type = T_date -> {Str(<<"2", "0", "2", "4", "-", "0", "2", "-", "2", "9">>)}
      [] field.type = T_time -> {Str(<<"0", "8", ":", "3", "0">>)}

FieldNames(s) == {s.fields[i].name : i \in 1..Len(s.fields)}
FieldNamed(s, name) == s.fields[CHOOSE i \in 1..Len(s.fields) : s.fields[i].name = name]

\* the records valid under a schema: a value of its type for each field, or no
\* key for a field that is not required
ValidRecords(s) ==
    LET choices(name) ==
            FieldValues(FieldNamed(s, name)) \cup
            (IF FieldNamed(s, name).required = Bool(TRUE) THEN {} ELSE {Undefined})
        all == UNION {choices(name) : name \in FieldNames(s)}
    IN {ObjectOf(f) : f \in {g \in [FieldNames(s) -> all] :
                                \A name \in FieldNames(s) : g[name] \in choices(name)}}

StoreDocuments ==
    { EmptyObject,
      Document(EmbeddedMeta(Num(2), Schema1), Arr(<<Rec_stale>>), Str(<<"n">>)),
      Document(MetaSection(Num(1), Str(<<"a">>), Str(<<"n">>)), Arr(<<>>), Undefined),
      Document(Num(3), Undefined, Undefined) }

StoreFiles ==
    { FileAbsent, FileBlank, FileGarbage,
      stringifyToml(Document(Undefined, Str(<<"x">>), Undefined)),
      stringifyToml(Document(Undefined, Arr(<<Num(5), Num(6)>>), Str(<<"n">>))),
      stringifyToml(Document(EmbeddedMeta(Num(1), Schema1), Arr(<<Rec_a1bx, Rec_empty>>),
                             Undefined)),
      stringifyToml(Document(EmbeddedMeta(Num(1), Schema1),
                             Arr(<<Arr(<<Num(1)>>), Arr(<<>>)>>), Str(<<"n">>))),
      stringifyToml(Document(EmbeddedMeta(Num(1), Schema1), Undefined, Str(<<"n">>))) }

InitStore ==
    /\ pc = "start"
    /\ arg \in StoreFiles
    /\ file = arg
    /\ result = Undefined
    /\ schemaSource = NoSchemaPath
    /\ schema \in Schemas
    /\ data \in StoreDocuments
    /\ records \in Seqs(ValidRecords(schema), MaxRecords)
    /\ mode = "list"
    /\ filterValue = <<>>
    /\ filteredIndices = <<>>
    /\ selectedRecordIndex = NoIndex
    /\ editingIndex = NoIndex
    /\ listIndex = 0
    /\ formValues = EmptyObject
    /\ status = ""

\* saveDatabase(dbPath, data, schema, records)
SaveDatabaseCall ==
    /\ pc = "start"
    /\ \E saved \in {saveDatabase(data, schema, records)} :
          /\ data' = saved.data
          /\ file' = saved.file
    /\ pc' = "saved"
    /\ UNCHANGED <<arg, result, schemaSource, schema, records, mode, filterValue,
                   filteredIndices, selectedRecordIndex, editingIndex, listIndex,
                   formValues, status>>

\* loadDatabase(dbPath, schema), of the file as found or of the file just saved
LoadDatabaseCall ==
    /\ pc \in {"start", "saved"}
    /\ result' = loadDatabase(file, schema)
    /\ pc' = IF pc = "saved" THEN "reloaded" ELSE "loaded"
    /\ UNCHANGED <<arg, file, appVars>>

NextStore == SaveDatabaseCall \/ LoadDatabaseCall

SpecStore == InitStore /\ [][NextStore]_vars

-----------------------------------------------------------------------------
(* SpecForm: buildRecordFromForm on every schema and every set of raw values *)

Date_2024_02_29 == <<"2", "0", "2", "4", "-", "0", "2", "-", "2", "9">>
Date_2023_02_29 == <<"2", "0", "2", "3", "-", "0", "2", "-", "2", "9">>
Time_08_30 == <<"0", "8", ":", "3", "0">>
Time_24_00 == <<"2", "4", ":", "0", "0">>

\* the fields a form can have: one name per type, required or not
FormRawFields ==
    { RawField(Str(<<"n">>), Str(T_number), Undefined, Bool(TRUE), Undefined),
      RawField(Str(<<"n">>), Str(T_number), Undefined, Undefined, Undefined),
      RawField(Str(<<"s">>), Str(T_text), Undefined, Bool(TRUE), Undefined),
      RawField(Str(<<"s">>), Str(T_text), Undefined, Bool(FALSE), Undefined),
      RawField(Str(<<"b">>), Str(T_boolean), Undefined, Bool(TRUE), Undefined),
      RawField(Str(<<"b">>), Str(T_boolean), Undefined, Undefined, Undefined),
      RawField(Str(<<"d">>), Str(T_date), Undefined, Undefined, Undefined),
      RawField(Str(<<"h">>), Str(T_time), Undefined, Bool(TRUE), Undefined),
      RawField(Str(<<"c">>), Str(T_choice), Arr(<<Str(<<"x">>), Str(<<"y">>)>>), Bool(TRUE), Undefined),
      RawField(Str(<<"c">>), Str(T_choice), Arr(<<Str(<<"x">>), Str(<<"y">>)>>), Undefined, Undefined),
      RawField(Str(ProtoKey), Str(T_boolean), Undefined, Undefined, Undefined),
      RawField(Str(ProtoKey), Str(T_text), Undefined, Bool(TRUE), Undefined) }

\* the schemas of one to MaxFields of these fields that parseSchema accepts
FormSchemas ==
    LET parsed == { parseSchema(ObjectOf([name |-> Undefined, fields |-> Arr(fs),
                                           primaryKey |-> Undefined,
                                           description |-> Undefined])) :
                       fs \in Seqs(FormRawFields, MaxFields) }
    IN {r.value : r \in {q \in parsed : q.ok}}

\* the raw values a control, or a caller, can hold for a field: absent, blank,
\* not a string, and texts that fit or do not fit the type
FormRaws(field) ==
    {Undefined, Str(<<>>), Str(<<" ">>), Bool(TRUE)} \cup
    ( CASE field.type = T_number -> {Str(<<" ", "1">>), Str(<<"x">>)}
        [] field.type = T_text -> {Str(<<" ", "x", " ">>)}
        [] field.type = T_boolean -> {Bool(FALSE), Str(<<"x">>)}
        [] field.type = T_date -> {Str(Date_2024_02_29), Str(Date_2023_02_29)}
        [] field.type = T_time -> {Str(Time_08_30), Str(Time_24_00)}
        [] field.type = T_choice -> {Str(<<" ", "y", " ">>), Str(<<"X">>)} )

\* the values objects over the fields of s from position i on, each value
\* assigned as the form does (formValues[field.name] = value)
RECURSIVE FormValueMaps(_, _)
FormValueMaps(s, i) ==
    IF i > Len(s.fields) THEN {EmptyObject}
    ELSE { IF v = Undefined THEN m ELSE WriteProperty(m, s.fields[i].name, v) :
              m \in FormValueMaps(s, i + 1), v \in FormRaws(s.fields[i]) }

InitForm ==
    /\ pc = "call"
    /\ arg = Undefined
    /\ result = Undefined
    /\ file = FileAbsent
    /\ schemaSource = NoSchemaPath
    /\ schema \in FormSchemas
    /\ formValues \in FormValueMaps(schema, 1)
    /\ data = EmptyObject
    /\ records = <<>>
    /\ mode = "new"
    /\ filterValue = <<>>
    /\ filteredIndices = <<>>
    /\ selectedRecordIndex = NoIndex
    /\ editingIndex = NoIndex
    /\ listIndex = 0
    /\ status = ""

\* buildRecordFromForm(schema, formValues)
BuildRecordFromFormCall ==
    /\ pc = "call"
    /\ result' = buildRecordFromForm(schema, formValues)
    /\ pc' = "returned"
    /\ UNCHANGED <<arg, appVars>>

NextForm == BuildRecordFromFormCall

SpecForm == InitForm /\ [][NextForm]_vars

-----------------------------------------------------------------------------
(* SpecEdit: a record built by the form, loaded, opened for edit and saved *)

EditRawFields ==
    { RawField(Str(<<"n">>), Str(T_number), Undefined, Undefined, Undefined),
      RawField(Str(<<"s">>), Str(T_text), Undefined, Undefined, Undefined),
      RawField(Str(<<"b">>), Str(T_boolean), Undefined, Undefined, Undefined),
      RawField(Str(<<"d">>), Str(T_date), Undefined, Undefined, Undefined),
      RawField(Str(<<"h">>), Str(T_time), Undefined, Bool(TRUE), Undefined),
      RawField(Str(<<"c">>), Str(T_choice), Arr(<<Str(<<"x">>), Str(<<"y">>)>>),
               Bool(TRUE), Undefined),
      RawField(Str(<<"c">>), Str(T_choice), Arr(<<Str(<<"x">>), Str(<<"y">>)>>),
               Undefined, Undefined) }

\* the schema files of one to MaxFields of these fields that parseSchema accepts
EditSources ==
    { src \in { ObjectOf([name |-> Undefined, fields |-> Arr(fs),
                          primaryKey |-> Undefined, description |-> Undefined]) :
                   fs \in Seqs(EditRawFields, MaxFields) } : parseSchema(src).ok }

\* the records buildRecordFromForm returns without errors under a schema
BuiltRecords(s) ==
    { built.record : built \in { b \in { buildRecordFromForm(s, values) :
                                            values \in FormValueMaps(s, 1) } :
                                    b.errors = <<>> } }

\* the session starts on a document that holds one such record
InitEdit ==
    /\ pc = "start"
    /\ schemaSource \in EditSources
    /\ \E record \in BuiltRecords(parseSchema(schemaSource).value) :
          arg = stringifyToml(DefaultSchemaName :> Arr(<<record>>))
    /\ file = arg
    /\ result = Undefined
    /\ NotStarted

NextEdit == Main \/ OpenEditRecord \/ SaveForm

SpecEdit == InitEdit /\ [][NextEdit]_vars

-----------------------------------------------------------------------------
(* SpecDate: isValidDate on the texts a date field can be given *)

TwoDigits(n) == <<Digits[(n \div 10) + 1], Digits[(n % 10) + 1]>>
FourDigits(n) == TwoDigits(n \div 100) \o TwoDigits(n % 100)

\* years at both ends of 0000-9999, around the years Date.UTC reads as 1900 + year,
\* and leap and common years of each kind
DateYears == {0, 4, 50, 99, 100, 1900, 2000, 2023, 2024, 9999}
DateMonths == 0..13
DateDays == {0, 1, 28, 29, 30, 31, 32}

\* texts of the form YYYY-MM-DD
ShapedDates ==
    { FourDigits(y) \o <<"-">> \o TwoDigits(m) \o <<"-">> \o TwoDigits(d) :
        y \in DateYears, m \in DateMonths, d \in DateDays }

\* texts the pattern of isValidDate does not match
UnshapedDates ==
    { <<>>,
      <<"2", "0", "2", "4", "-", "2", "-", "2", "9">>,
      <<"2", "4", "-", "0", "2", "-", "2", "9">>,
      <<"2", "0", "2", "4", "0", "2", "2", "9">>,
      <<"2", "0", "2", "4", "/", "0", "2", "/", "2", "9">>,
      <<"2", "0", "2", "4", "-", "0", "2", "-", "2", "x">>,
      <<"2", "0", "2", "4", "-", "0", "2", "-", "2", "9", " ">>,
      <<" ", "2", "0", "2", "4", "-", "0", "2", "-", "2", "9">>,
      <<"2", "0", "2", "4", "-", "0", "2", "-", "2", "9", "1">>,
      <<"0", "2", "-", "2", "9", "-", "2", "0", "2", "4">>,
      <<"2", "0", "2", "4", "-", "0", "2", ":", "2", "9">> }

DateInputs == ShapedDates \cup UnshapedDates

InitDate ==
    /\ pc = "call"
    /\ arg \in DateInputs
    /\ result = Undefined
    /\ file = FileAbsent
    /\ schemaSource = NoSchemaPath
    /\ schema = Undefined
    /\ formValues = EmptyObject
    /\ data = EmptyObject
    /\ records = <<>>
    /\ mode = "new"
    /\ filterValue = <<>>
    /\ filteredIndices = <<>>
    /\ selectedRecordIndex = NoIndex
    /\ editingIndex = NoIndex
    /\ listIndex = 0
    /\ status = ""

\* isValidDate(input)
IsValidDateCall ==
    /\ pc = "call"
    /\ result' = Bool(isValidDate(arg))
    /\ pc' = "returned"
    /\ UNCHANGED <<arg, appVars>>

NextDate == IsValidDateCall

SpecDate == InitDate /\ [][NextDate]_vars

-----------------------------------------------------------------------------
(* SpecTime: isValidTime, and a time field of the form, on the texts typed *)

TimeHours == {0, 8, 12, 23, 24, 99}
TimeMinutes == {0, 30, 59, 60}
TimeSeconds == {0, 59, 60}

\* texts of the form HH:MM or HH:MM:SS
ShapedTimes ==
    { TwoDigits(h) \o <<":">> \o TwoDigits(m) : h \in TimeHours, m \in TimeMinutes }
    \cup { TwoDigits(h) \o <<":">> \o TwoDigits(m) \o <<":">> \o TwoDigits(sec) :
             h \in TimeHours, m \in TimeMinutes, sec \in TimeSeconds }

\* texts the pattern of isValidTime does not match: parts of one or three
\* digits, other separators, other characters, blanks around or a part too many
UnshapedTimes ==
    { <<>>,
      <<"8", ":", "3", "0">>,
      <<"0", "8", "3", "0">>,
      <<"0", "8", ":", "3", "0", ":">>,
      <<"0", "8", ":", "3", "0", ":", "5">>,
      <<"0", "8", ":", "3", "0", ":", "0", "0", "0">>,
      <<"0", "8", ":", "3", "0", ":", "0", "0", ":", "0", "0">>,
      <<"0", "8", ".", "3", "0">>,
      <<"0", "8", "-", "3", "0", "-", "0", "0">>,
      <<"0", "8", ":", "3", "0", "-", "0", "0">>,
      <<"0", "8", ":", "3", "x">>,
      <<"x", "8", ":", "3", "0", ":", "0", "0">>,
      <<"0", "8", ":", "3", "0", " ">>,
      <<" ", "0", "8", ":", "3", "0", ":", "5", "9", " ">>,
      <<" ", "2", "4", ":", "0", "0">> }

TimeInputs == ShapedTimes \cup UnshapedTimes

\* a time field as parseSchema returns it
TimeField ==
    parseField(RawField(Str(<<"h">>), Str(T_time), Undefined, Undefined, Undefined)).value

InitTime ==
    /\ pc = "call"
    /\ arg \in TimeInputs
    /\ result = Undefined
    /\ file = FileAbsent
    /\ schemaSource = NoSchemaPath
    /\ schema = Undefined
    /\ formValues = EmptyObject
    /\ data = EmptyObject
    /\ records = <<>>
    /\ mode = "new"
    /\ filterValue = <<>>
    /\ filteredIndices = <<>>
    /\ selectedRecordIndex = NoIndex
    /\ editingIndex = NoIndex
    /\ listIndex = 0
    /\ status = ""

\* isValidTime(input)
IsValidTimeCall ==
    /\ pc = "call"
    /\ result' = Bool(isValidTime(arg))
    /\ pc' = "validated"
    /\ UNCHANGED <<arg, appVars>>

\* the iteration of buildRecordFromForm for a time field holding the text
CoerceTimeField ==
    /\ pc = "validated"
    /\ result' = CoerceField(TimeField, Str(arg))
    /\ pc' = "coerced"
    /\ UNCHANGED <<arg, appVars>>

NextTime == IsValidTimeCall \/ CoerceTimeField

SpecTime == InitTime /\ [][NextTime]_vars

-----------------------------------------------------------------------------
(* SpecFilter: filterRecords on schemas, record sequences and queries *)

FilterSchemaOf(fs) ==
    parseSchema(ObjectOf([name |-> Undefined, fields |-> Arr(fs),
                          primaryKey |-> Undefined, description |-> Undefined])).value

\* schemas whose field names differ in more than case, differ in case only, and
\* include the key that objects inherit
FilterSchemas ==
    { FilterSchemaOf(<<RawField(Str(<<"i", "d">>), Str(T_number), Undefined, Undefined, Undefined),
                       RawField(Str(<<"T", "i", "t", "l", "e">>), Str(T_text), Undefined, Undefined, Undefined)>>),
      FilterSchemaOf(<<RawField(Str(<<"t">>), Str(T_text), Undefined, Undefined, Undefined),
                       RawField(Str(<<"T">>), Str(T_text), Undefined, Undefined, Undefined)>>),
      FilterSchemaOf(<<RawField(Str(ProtoKey), Str(T_text), Undefined, Undefined, Undefined),
                       RawField(Str(<<"t">>), Str(T_text), Undefined, Undefined, Undefined)>>) }

\* records as loadDatabase and buildRecordFromForm make them: with and without
\* values for the fields, and with a key that no schema declares
FilterRecordPool ==
    { Obj(EmptyObject),
      Obj(<<"i", "d">> :> Num(1) @@ <<"T", "i", "t", "l", "e">> :> Str(<<"A", "b">>)),
      Obj(<<"i", "d">> :> Num(12) @@ <<"T", "i", "t", "l", "e">> :> Str(<<"b", ":", "C">>)),
      Obj(<<"T">> :> Str(<<"x">>)),
      Obj(<<"t">> :> Str(<<"x">>) @@ <<"x">> :> Str(<<"A", "b">>)),
      Obj(<<"T", "i", "t", "l", "e">> :> Str(<<"o", "b", "j">>)) }

\* queries: blank, global, field:value with a declared and an undeclared field,
\* in either case, with blanks, with an empty value, and with a colon first
FilterQueries ==
    { <<>>,
      <<" ">>,
      <<"b">>,
      <<"A", "B">>,
      <<"1">>,
      <<"c">>,
      <<":", "b">>,
      <<"t", "i", "t", "l", "e", ":", "b">>,
      <<" ", "T", "i", "t", "l", "e", " ", ":", " ", "B", " ">>,
      <<"t", "i", "t", "l", "e", ":">>,
      <<"t", "i", "t", "l", "e", ":", " ">>,
      <<"n", "o", "p", "e", ":", "b">>,
      <<"n", "o", "p", "e", ":">>,
      <<"t", "i", "t", "l", "e", ":", "b", ":", "c">>,
      <<"t", ":", "x">>,
      <<"T", ":", "x">>,
      <<"x", ":", "a", "b">>,
      <<"_", "_", "p", "r", "o", "t", "o", "_", "_", ":", "o", "b", "j">>,
      <<"o", "b", "j">>,
      <<"i", "d", ":", "1">> }

InitFilter ==
    /\ pc = "call"
    /\ arg = Undefined
    /\ result = Undefined
    /\ file = FileAbsent
    /\ schemaSource = NoSchemaPath
    /\ schema \in FilterSchemas
    /\ formValues = EmptyObject
    /\ data = EmptyObject
    /\ records \in Seqs(FilterRecordPool, MaxRecords)
    /\ mode = "list"
    /\ filterValue \in FilterQueries
    /\ filteredIndices = <<>>
    /\ selectedRecordIndex = NoIndex
    /\ editingIndex = NoIndex
    /\ listIndex = 0
    /\ status = ""

\* filteredIndices = filterRecords(records, schema, filterValue)
FilterRecordsCall ==
    /\ pc = "call"
    /\ filteredIndices' = filterRecords(records, schema, filterValue)
    /\ pc' = "returned"
    /\ UNCHANGED <<arg, result, file, schemaSource, schema, data, records, mode,
                   filterValue, selectedRecordIndex, editingIndex, listIndex,
                   formValues, status>>

NextFilter == FilterRecordsCall

SpecFilter == InitFilter /\ [][NextFilter]_vars

-----------------------------------------------------------------------------
(* SpecRef: the ref argument of modelsdev's 'models show' and 'models add' *)

MaxRefLen == 5

\* input.slice(start): the characters from position start, counted from 0
SliceFrom(input, start) == SubSeq(input, start + 1, Len(input))
\* input.slice(0, end)
SliceTo(input, end) == SubSeq(input, 1, end)

\* modelRef(providerId, modelId): `${providerId}/${modelId}`
modelRef(providerId, modelId) == providerId \o <<"/">> \o modelId

\* parseRef that cuts the ref at its last '/'
parseRef_LastSlash(input) ==
    IF IndexOf(input, "/") = -1
    THEN [providerId |-> Undefined, modelId |-> Str(input)]
    ELSE LET idx == Max({i \in 1..Len(input) : input[i] = "/"}) - 1
         IN [providerId |-> Str(SliceTo(input, idx)),
             modelId |-> Str(SliceFrom(input, idx + 1))]

\* parseRef(input) of 'models add'
parseRef(input) ==
    LET idx == IndexOf(input, "/")
    IN IF idx = -1
       THEN [providerId |-> Undefined, modelId |-> Str(input)]
       ELSE [providerId |-> Str(SliceTo(input, idx)),
             modelId |-> Str(SliceFrom(input, idx + 1))]

\* the refs typed: every text of up to MaxRefLen characters, '/' among them
Refs == Seqs({"a", "b", "/"}, MaxRefLen)

InitRef ==
    /\ pc = "call"
    /\ arg \in Refs
    /\ result = Undefined
    /\ AppIdle

\* ModelsShow.run up to the lookup: providerId and modelId of args.ref
ModelsShowRun ==
    /\ pc = "call"
    /\ \E idx \in {IndexOf(arg, "/")} :
          result' = IF idx # -1
                    THEN [providerId |-> Str(SliceTo(arg, idx)),
                          modelId |-> Str(SliceFrom(arg, idx + 1))]
                    ELSE [providerId |-> Undefined, modelId |-> Str(arg)]
    /\ pc' = "shown"
    /\ UNCHANGED <<arg, appVars>>

\* resolveModel of 'models add' up to the lookup: parseRef(input)
ModelsAddRun ==
    /\ pc = "call"
    /\ result' = parseRef(arg)
    /\ pc' = "added"
    /\ UNCHANGED <<arg, appVars>>

NextRef == ModelsShowRun \/ ModelsAddRun

SpecRef == InitRef /\ [][NextRef]_vars

-----------------------------------------------------------------------------
(* Claims about parseSchema (SpecSchema) *)

RawFieldsOf(raw) == IF Get(raw, "fields").t = "arr" THEN Get(raw, "fields").v ELSE <<>>
TrimmedOrEmpty(x) == IF x.t = "str" THEN Trim(x.v) ELSE <<>>

NotAnObject(raw) == raw.t # "obj"
ReservedName(raw) == TrimmedOrEmpty(Get(raw, "name")) = REQMAN_META_TABLE
FieldsNotASequence(raw) == Get(raw, "fields").t # "arr"
FieldsEmpty(raw) == Get(raw, "fields").t = "arr" /\ Len(Get(raw, "fields").v) = 0
FieldWithoutName(f) == TrimmedOrEmpty(Get(f, "name")) = <<>>
FieldTypeOutside(f) == TrimmedOrEmpty(Get(f, "type")) \notin FIELD_TYPES
ChoiceWithBadOptions(f) ==
    /\ TrimmedOrEmpty(Get(f, "type")) = T_choice
    /\ LET o == Get(f, "options")
       IN \/ o.t # "arr"
          \/ Len(o.v) = 0
          \/ \E i \in 1..Len(o.v) : o.v[i].t # "str"
          \/ \E i, j \in 1..Len(o.v) :
                /\ i # j
                /\ o.v[i].t = "str"
                /\ o.v[j].t = "str"
                /\ Trim(o.v[i].v) = Trim(o.v[j].v)
OptionsOnNonChoice(f) ==
    /\ TrimmedOrEmpty(Get(f, "type")) # T_choice
    /\ f.t = "obj"
    /\ "options" \in DOMAIN f.v
SameFieldNameTwice(raw) ==
    \E i, j \in 1..Len(RawFieldsOf(raw)) :
        /\ i # j
        /\ TrimmedOrEmpty(Get(RawFieldsOf(raw)[i], "name")) # <<>>
        /\ TrimmedOrEmpty(Get(RawFieldsOf(raw)[i], "name")) =
           TrimmedOrEmpty(Get(RawFieldsOf(raw)[j], "name"))
\* primaryKey is set (a string that is not blank) and is the trimmed name of no field
PrimaryKeyNamesNoField(raw) ==
    /\ TrimmedOrEmpty(Get(raw, "primaryKey")) # <<>>
    /\ \A i \in 1..Len(RawFieldsOf(raw)) :
          TrimmedOrEmpty(Get(RawFieldsOf(raw)[i], "name")) # TrimmedOrEmpty(Get(raw, "primaryKey"))

InRejectionSet(raw) ==
    \/ NotAnObject(raw)
    \/ ReservedName(raw)
    \/ FieldsNotASequence(raw)
    \/ FieldsEmpty(raw)
    \/ \E i \in 1..Len(RawFieldsOf(raw)) :
          \/ FieldWithoutName(RawFieldsOf(raw)[i])
          \/ FieldTypeOutside(RawFieldsOf(raw)[i])
          \/ ChoiceWithBadOptions(RawFieldsOf(raw)[i])
          \/ OptionsOnNonChoice(RawFieldsOf(raw)[i])
    \/ SameFieldNameTwice(raw)
    \/ PrimaryKeyNamesNoField(raw)

C7_PrimaryKeyDeclared ==
    (pc = "returned" /\ result.ok /\ Get(arg, "primaryKey").t = "str") =>
        \E i \in 1..Len(result.value.fields) :
            Str(result.value.fields[i].name) = result.value.primaryKey

-----------------------------------------------------------------------------
(* Claims about the metadata codec (SpecCodec) *)

\* C2: after ensureDatabaseFile(path, S) completes, on an absent, empty or
\* parseable file, loadSchemaFromDatabase(path) returns a schema equal to S.
C2_SchemalessReopening ==
    pc = "reopened" => result = Return(schema)

\* an existing document from which no schema could be extracted was reopened
C2_Witness ==
    /\ pc = "reopened"
    /\ arg.kind = "toml"
    /\ ~loadSchemaFromDatabase(arg).ok
    /\ result = Return(schema)

\* the TOML document has a metadata table whose schema_version is a number other
\* than the supported one
HasOtherNumericVersion(f) ==
    /\ f.kind = "toml"
    /\ REQMAN_META_TABLE \in DOMAIN f.doc
    /\ f.doc[REQMAN_META_TABLE].t = "table"
    /\ REQMAN_SCHEMA_VERSION_KEY \in DOMAIN f.doc[REQMAN_META_TABLE].v
    /\ f.doc[REQMAN_META_TABLE].v[REQMAN_SCHEMA_VERSION_KEY].t = "integer"
    /\ f.doc[REQMAN_META_TABLE].v[REQMAN_SCHEMA_VERSION_KEY].v # 1

\* C8: for a parseable document whose metadata section has a numeric
\* schema_version other than 1, loadSchemaFromDatabase throws the
\* unsupported-version error whatever schema_json holds.
C8_VersionGateFirst ==
    (pc = "extracted" /\ HasOtherNumericVersion(arg)) =>
        result = Throw("has unsupported embedded schema_version")

\* the version error was thrown although schema_json is absent
C8_Witness ==
    /\ pc = "extracted"
    /\ HasOtherNumericVersion(arg)
    /\ REQMAN_SCHEMA_JSON_KEY \notin DOMAIN arg.doc[REQMAN_META_TABLE].v
    /\ result = Throw("has unsupported embedded schema_version")

-----------------------------------------------------------------------------
(* Claims about the record store (SpecStore) *)

-----------------------------------------------------------------------------
(* Claims about the session (Spec) *)

Mutations == {"Added record", "Updated record", "Deleted record"}

\* the file holds the in-memory records under the schema's name, and a metadata
\* table with schema_version = 1 and a schema_json that decodes to the schema
PersistedConsistent ==
    /\ file.kind = "toml"
    /\ schema.name \in DOMAIN file.doc
    /\ JsValue(file.doc[schema.name]) = Arr(records)
    /\ REQMAN_META_TABLE \in DOMAIN file.doc
    /\ file.doc[REQMAN_META_TABLE].t = "table"
    /\ LET meta == file.doc[REQMAN_META_TABLE].v
       IN /\ REQMAN_SCHEMA_VERSION_KEY \in DOMAIN meta
          /\ meta[REQMAN_SCHEMA_VERSION_KEY] = [t |-> "integer", v |-> 1]
          /\ REQMAN_SCHEMA_JSON_KEY \in DOMAIN meta
          /\ meta[REQMAN_SCHEMA_JSON_KEY].t = "string"
          /\ JSONParse(meta[REQMAN_SCHEMA_JSON_KEY].v).ok
          /\ parseSchema(JSONParse(meta[REQMAN_SCHEMA_JSON_KEY].v).value) = Return(schema)

\* C3: after every completed create, update or delete (the handlers leave their
\* message in the status, and nothing else changes the in-memory records) the
\* persisted document is consistent with memory: the records under the
\* schema's name, schema_version = 1, schema_json decoding to the session's
\* schema.
C3_SavedOnEveryMutation ==
    /\ []((pc = "running" /\ status \in Mutations) => PersistedConsistent)
    /\ [][(pc = "running" /\ records' # records) => status' \in Mutations]_vars

\* a record of a document loaded with records was replaced and the file written
C3_Witness ==
    /\ status = "Updated record"
    /\ arg.kind = "toml"
    /\ Len(records) = 2
    /\ PersistedConsistent

\* the form values produce at least one coercion error
HasCoercionError(s, values) ==
    \E i \in 1..Len(s.fields) :
        CoerceField(s.fields[i], ReadProperty(values, s.fields[i].name)).kind = "error"

\* C4: while the form values produce at least one coercion error, no request
\* but cancel (so no save request) changes the in-memory records, the file or
\* the mode (new/edit); a rejected save only sets the status, and the save
\* request that follows it with valid values succeeds.
C4_RejectedSaveChangesNothing ==
    [][ /\ ( /\ pc = "running"
             /\ mode # "list"
             /\ HasCoercionError(schema, formValues)
             /\ status' # "Edit cancelled." ) =>
              /\ records' = records
              /\ file' = file
              /\ data' = data
              /\ mode' = mode
              /\ status' \in {status, "Validation errors"}
        /\ ( /\ pc = "running"
             /\ mode # "list"
             /\ status = "Validation errors"
             /\ ~HasCoercionError(schema, formValues)
             /\ formValues' = formValues
             /\ status' # "Edit cancelled." ) =>
              /\ status' = (IF mode = "new" THEN "Added record" ELSE "Updated record")
              /\ mode' = "list"
              /\ PersistedConsistent' ]_vars

\* a save was rejected while a record was being edited
C4_Witness ==
    /\ status = "Validation errors"
    /\ mode = "edit"
    /\ HasCoercionError(schema, formValues)
    /\ Len(records) > 0

\* the value fits the type of the field
ValueOfType(field, value) ==
    CASE field.type = T_number -> value.t = "num"
      [] field.type = T_text -> value.t = "str"
      [] field.type = T_boolean -> value.t = "bool"
      [] field.type = T_choice ->
            \E i \in 1..Len(field.options.v) : field.options.v[i] = value
      [] field.type = T_date -> value.t = "str" /\ isValidDate(value.v)
      [] field.type = T_time -> value.t = "str" /\ isValidTime(value.v)

\* only declared fields, each present value of its field's type, every required
\* field present
RecordConsistent(s, rec) ==
    /\ rec.t = "obj"
    /\ DOMAIN rec.v \subseteq FieldNames(s)
    /\ \A name \in DOMAIN rec.v : ValueOfType(FieldNamed(s, name), rec.v[name])
    /\ \A name \in FieldNames(s) :
          FieldNamed(s, name).required = Bool(TRUE) => name \in DOMAIN rec.v

\* the records of the table of the file
PersistedRecords == JsValue(file.doc[schema.name]).v

-----------------------------------------------------------------------------
(* Claims about startup (SpecStartup) *)

HasMetaTable(f) ==
    /\ f.kind = "toml"
    /\ REQMAN_META_TABLE \in DOMAIN f.doc
    /\ f.doc[REQMAN_META_TABLE].t = "table"

\* the document embeds a schema_version that is not the supported one
EmbeddedVersionDiffers(f) ==
    /\ HasMetaTable(f)
    /\ REQMAN_SCHEMA_VERSION_KEY \in DOMAIN f.doc[REQMAN_META_TABLE].v
    /\ f.doc[REQMAN_META_TABLE].v[REQMAN_SCHEMA_VERSION_KEY] #
          [t |-> "integer", v |-> REQMAN_SCHEMA_VERSION]

EmbeddedVersion(f) == f.doc[REQMAN_META_TABLE].v[REQMAN_SCHEMA_VERSION_KEY]

\* C9 as claimed: every startup on a document whose embedded schema_version
\* differs from 1, with or without an external schema source, ends in a load error.
C9_NeverLoaded ==
    (pc # "start" /\ EmbeddedVersionDiffers(arg)) => pc = "failed"

\* C9 amended: a startup without an external schema source on such a document
\* ends in a load error and leaves the file as it was; a startup with a valid
\* external schema overwrites schema_version with 1, migrates no record and
\* loads the document; with an invalid external schema it fails and leaves the
\* file as it was.
C9_NeverLoadedWithoutSchemaSource ==
    (pc # "start" /\ EmbeddedVersionDiffers(arg)) =>
        IF schemaSource = NoSchemaPath \/ ~parseSchema(schemaSource).ok
        THEN pc = "failed" /\ file = arg
        ELSE /\ pc = "running"
             /\ EmbeddedVersion(file) = [t |-> "integer", v |-> REQMAN_SCHEMA_VERSION]
             /\ \A k \in (DOMAIN arg.doc) \ {REQMAN_META_TABLE} :
                   k \in DOMAIN file.doc /\ file.doc[k] = arg.doc[k]

\* a document of version 2 with a schema_json that is a valid schema was refused
C9_Witness ==
    /\ pc = "failed"
    /\ schemaSource = NoSchemaPath
    /\ EmbeddedVersionDiffers(arg)
    /\ EmbeddedVersion(arg).t = "integer"
    /\ EmbeddedSchema(Get(Obj(parseToml(arg).value), REQMAN_META_TABLE)).ok
    /\ file = arg

ValidSchemaSource == schemaSource # NoSchemaPath /\ parseSchema(schemaSource).ok

\* the document is unparseable, lacks the metadata section, or has metadata from
\* which no schema is extracted
HasDocumentError(f) ==
    \/ f.kind = "garbage"
    \/ (f.kind = "toml" /\ ~HasMetaTable(f))
    \/ (HasMetaTable(f) /\ ~loadSchemaFromDatabase(f).ok)

\* C10 as claimed: with a valid external schema, startup on a document that is
\* unparseable, lacks the metadata section or has incompatible metadata does not
\* fail, and the file is recreated with the supplied schema embedded.
C10_EveryDocumentErrorRecovered ==
    (pc # "start" /\ ValidSchemaSource /\ HasDocumentError(arg)) =>
        /\ pc = "running"
        /\ loadSchemaFromDatabase(file) = parseSchema(schemaSource)

\* C10 amended: with a valid external schema, startup on a parseable document
\* that lacks the metadata section or has incompatible metadata does not fail,
\* and the file is rewritten with the supplied schema embedded; on an
\* unparseable document startup fails with the parse error and the file is left
\* as it was.
C10_ParseableDocumentRecovered ==
    (pc # "start" /\ ValidSchemaSource /\ HasDocumentError(arg)) =>
        IF arg.kind = "garbage"
        THEN /\ pc = "failed"
             /\ result = Throw("Failed to parse database TOML")
             /\ file = arg
        ELSE /\ pc = "running"
             /\ schema = parseSchema(schemaSource).value
             /\ loadSchemaFromDatabase(file) = Return(schema)

\* a document without a metadata section was given the supplied schema
C10_Witness ==
    /\ pc = "running"
    /\ ValidSchemaSource
    /\ arg.kind = "toml"
    /\ ~HasMetaTable(arg)
    /\ loadSchemaFromDatabase(file) = Return(schema)

\* C11: if startup aborts with a schema error or a document error, the file is
\* exactly what it was before startup (and a startup that fails is one that
\* wrote nothing: no failing path comes after a write).
C11_NoWriteOnFailedStartup ==
    pc = "failed" => file = arg

\* startup was refused on a parseable document with records, for its version
C11_Witness ==
    /\ pc = "failed"
    /\ result = Throw("has unsupported embedded schema_version")
    /\ arg.kind = "toml"
    /\ <<"t">> \in DOMAIN arg.doc
    /\ file = arg

-----------------------------------------------------------------------------
(* Claims about embedding (SpecCodec) *)

\* the keys of the metadata section of a parsed document (none when the document
\* has no such section)
SectionOf(d) ==
    IF REQMAN_META_TABLE \in DOMAIN d /\ d[REQMAN_META_TABLE].t = "obj"
    THEN d[REQMAN_META_TABLE].v
    ELSE EmptyObject

EmbeddedKeys == {REQMAN_SCHEMA_VERSION_KEY, REQMAN_SCHEMA_JSON_KEY}

\* document `after` is document `before` with the two keys of schema s set in its
\* metadata section and nothing else changed
OnlyTwoKeysSet(before, after, s) ==
    /\ DOMAIN after = (DOMAIN before) \cup {REQMAN_META_TABLE}
    /\ \A k \in (DOMAIN before) \ {REQMAN_META_TABLE} : after[k] = before[k]
    /\ after[REQMAN_META_TABLE].t = "obj"
    /\ DOMAIN SectionOf(after) = (DOMAIN SectionOf(before)) \cup EmbeddedKeys
    /\ \A k \in (DOMAIN SectionOf(before)) \ EmbeddedKeys :
          SectionOf(after)[k] = SectionOf(before)[k]
    /\ SectionOf(after)[REQMAN_SCHEMA_VERSION_KEY] = Num(REQMAN_SCHEMA_VERSION)
    /\ SectionOf(after)[REQMAN_SCHEMA_JSON_KEY] = JSONStringify(s)

\* C12: ensureSchemaMetadata, and ensureDatabaseFile applied to an existing
\* parseable file, set schema_version and schema_json in the metadata section
\* whatever they were, and leave every other key of the section, the record
\* table and every other top-level section unchanged.
C12_EmbeddingChangesTwoKeys ==
    (pc = "ensured" /\ arg.kind = "toml") =>
        /\ file.kind = "toml"
        /\ OnlyTwoKeysSet(parseToml(arg).value, parseToml(file).value, schema)
        /\ OnlyTwoKeysSet(parseToml(arg).value,
                          ensureSchemaMetadata(parseToml(arg).value, schema), schema)

\* a document with a record, another section, and a metadata section holding a
\* third key and another version had the schema embedded
C12_Witness ==
    /\ pc = "ensured"
    /\ arg.kind = "toml"
    /\ <<"o">> \in DOMAIN arg.doc
    /\ <<"t">> \in DOMAIN arg.doc
    /\ arg.doc[<<"t">>].t = "array"
    /\ Len(arg.doc[<<"t">>].v) = 1
    /\ <<"k">> \in DOMAIN SectionOf(parseToml(arg).value)
    /\ SectionOf(parseToml(arg).value)[REQMAN_SCHEMA_VERSION_KEY] # Num(REQMAN_SCHEMA_VERSION)
    /\ <<"k">> \in DOMAIN SectionOf(parseToml(file).value)
    /\ file.doc[<<"t">>] = arg.doc[<<"t">>]

\* C13: calling ensureDatabaseFile a second time with the same schema leaves
\* the file identical to what the first call left, and applying
\* ensureSchemaMetadata to the document of that file (where it was applied
\* once) leaves the document, so its metadata section, identical.
C13_IdempotentReembedding ==
    [][ (pc = "ensured" /\ pc' # "reopened") =>
            /\ pc' = "ensured twice"
            /\ file' = file
            /\ file.kind = "toml"
            /\ ensureSchemaMetadata(parseToml(file).value, schema) = parseToml(file).value
      ]_vars

\* the second call ran on a file that the first call had to change: a document
\* with records whose metadata section held another version
C13_Witness ==
    /\ pc = "ensured twice"
    /\ arg.kind = "toml"
    /\ SectionOf(parseToml(arg).value) # EmptyObject
    /\ file # arg
    /\ <<"t">> \in DOMAIN file.doc
    /\ file.doc[<<"t">>].t = "array"
    /\ Len(file.doc[<<"t">>].v) = 1

-----------------------------------------------------------------------------
(* Claims about loading (SpecStore) *)

\* the records that loading makes of the value found under the table name
NormalizedEntries(table, recs) ==
    IF table.t # "arr" THEN recs = <<>>
    ELSE /\ Len(recs) = Len(table.v)
         /\ \A i \in 1..Len(recs) :
               recs[i] = IF table.v[i].t = "obj" THEN table.v[i] ELSE Obj(EmptyObject)

\* C14: loadDatabase of a blank file returns no records and a document with no
\* section (only the empty record table it sets); of a parseable file, no
\* records when the table is absent or not a sequence, otherwise one record per
\* entry in order, an object entry copied key for key and any other entry
\* replaced by an empty record; every other section of the parsed document,
\* the metadata section included, is kept in the returned document, whose
\* table holds the returned records.
C14_LoadNormalizes ==
    (pc = "loaded" /\ arg.kind \in {"blank", "toml"}) =>
        LET doc == IF arg.kind = "blank" THEN EmptyObject ELSE parseToml(arg).value
            table == Get(Obj(doc), schema.name)
        IN /\ result.ok
           /\ arg.kind = "blank" => result.value.records = <<>>
           /\ NormalizedEntries(table, result.value.records)
           /\ DOMAIN result.value.data = (DOMAIN doc) \cup {schema.name}
           /\ \A k \in (DOMAIN doc) \ {schema.name} : result.value.data[k] = doc[k]
           /\ result.value.data[schema.name] = Arr(result.value.records)

\* a table of two entries that are arrays was loaded as two empty records, the
\* metadata section and the other section kept
C14_Witness ==
    /\ pc = "loaded"
    /\ arg.kind = "toml"
    /\ schema.name \in DOMAIN arg.doc
    /\ arg.doc[schema.name].t = "array"
    /\ Len(arg.doc[schema.name].v) = 2
    /\ arg.doc[schema.name].v[1].t = "array"
    /\ result.value.records = <<Obj(EmptyObject), Obj(EmptyObject)>>
    /\ REQMAN_META_TABLE \in DOMAIN result.value.data
    /\ <<"o">> \in DOMAIN result.value.data

-----------------------------------------------------------------------------
(* Claims about the requests of the record list (Spec) *)

NothingSelected == pc = "running" /\ mode = "list" /\ selectedRecordIndex = NoIndex

\* C15: while no record is selected, no request (so no delete and no edit
\* request) changes the record sequence, the document or the file, and none but
\* the request for a new record leaves the list mode; a delete or edit request
\* sets its status message only, and the requests that follow still work: a new
\* record can be opened and the filter changed.
C15_NoSelectionNoChange ==
    [][ /\ NothingSelected =>
              /\ records' = records
              /\ data' = data
              /\ file' = file
              /\ mode' = "list" \/ (mode' = "new" /\ status' = "Creating new record.")
        /\ ( /\ NothingSelected
             /\ status' # status
             /\ status' \in {"Select a record to edit.", "Select a record to delete."} ) =>
              /\ mode' = mode
              /\ filterValue' = filterValue
              /\ filteredIndices' = filteredIndices
              /\ selectedRecordIndex' = selectedRecordIndex
              /\ editingIndex' = editingIndex
              /\ formValues' = formValues
        /\ ( /\ NothingSelected
             /\ status \in {"Select a record to edit.", "Select a record to delete."}
             /\ status' \notin {"Select a record to edit.", "Select a record to delete."} ) =>
              /\ status' = "Creating new record."
              /\ mode' = "new"
              /\ formValues' = resetFormValues(schema, Undefined)
      ]_vars

\* a delete request found nothing selected although there are records: the
\* filter matches none of them
C15_Witness ==
    /\ NothingSelected
    /\ status = "Select a record to delete."
    /\ Len(records) > 0
    /\ filteredIndices = <<>>
    /\ file.kind = "toml"
    /\ JsValue(file.doc[schema.name]) = Arr(records)

\* a save request completes: the form is left, and not by cancelForm
SaveCompletes == pc = "running" /\ mode # "list" /\ mode' = "list" /\ status' # "Edit cancelled."

\* C16: a successful create appends the coerced record as the new last element
\* and leaves the earlier records unchanged and in order; a successful update
\* of index i replaces records[i] by exactly the coerced record (no key of the
\* old record survives unless the form produced it), leaves every other record
\* unchanged and keeps the length.
C16_OnePositionTouched ==
    [][ SaveCompletes =>
          LET built == buildRecordFromForm(schema, formValues)
          IN /\ built.errors = <<>>
             /\ mode = "new" =>
                   /\ Len(records') = Len(records) + 1
                   /\ SubSeq(records', 1, Len(records)) = records
                   /\ records'[Len(records')] = built.record
             /\ mode = "edit" =>
                   /\ editingIndex \in 0..(Len(records) - 1)
                   /\ Len(records') = Len(records)
                   /\ records'[editingIndex + 1] = built.record
                   /\ \A j \in 1..Len(records) :
                         j # editingIndex + 1 => records'[j] = records[j]
      ]_vars

\* the first of two loaded records, which held an undeclared key, was updated:
\* the key is gone and the second record is as loaded
C16_Witness ==
    /\ pc = "running"
    /\ status = "Updated record"
    /\ arg.kind = "toml"
    /\ JsValue(arg.doc[<<"t">>]) = Arr(<<Rec_stale, Rec_a2>>)
    /\ editingIndex = 0
    /\ Len(records) = 2
    /\ <<"z">> \notin DOMAIN records[1].v
    /\ records[1] = Obj(<<"a">> :> Num(1))
    /\ records[2] = Rec_a2

-----------------------------------------------------------------------------
(* Claims about buildRecordFromForm (SpecForm) *)

\* the raw value is absent, not a string, empty or made of white space
BlankRaw(raw) == raw.t # "str" \/ Trim(raw.v) = <<>>

\* the message of the rule that the raw value violates, "" when it violates none
RuleViolated(field, raw) ==
    IF field.type = T_boolean THEN ""
    ELSE IF BlankRaw(raw)
    THEN (IF field.required = Bool(TRUE) THEN "is required." ELSE "")
    ELSE CASE field.type = T_choice ->
                 IF \E k \in 1..Len(field.options.v) : field.options.v[k] = Str(Trim(raw.v))
                 THEN "" ELSE "must be one of"
           [] field.type = T_number ->
                 IF ToNumber(Trim(raw.v)) = NaN THEN "must be a valid number." ELSE ""
           [] field.type = T_date ->
                 IF isValidDate(Trim(raw.v)) THEN "" ELSE "must be a valid date (YYYY-MM-DD)."
           [] field.type = T_time ->
                 IF isValidTime(Trim(raw.v)) THEN ""
                 ELSE "must be a valid time (HH:MM or HH:MM:SS)."
           [] OTHER -> ""

RawOf(name) == IF name \in DOMAIN formValues THEN formValues[name] ELSE Undefined

\* the schema reduced to its field at position i
OnlyField(s, i) == [s EXCEPT !.fields = <<s.fields[i]>>]

\* C17: buildRecordFromForm never stops at the first failure: errors holds
\* exactly one message for each declared field whose raw value violates its
\* rule, in field declaration order; and what happens to a field (assigned,
\* omitted or reported) is what happens to it in a schema of that field alone.
C17_AllViolationsReported ==
    pc = "returned" =>
        LET Violating(i) == RuleViolated(schema.fields[i], RawOf(schema.fields[i].name)) # ""
            violating == SelectSeq([i \in 1..Len(schema.fields) |-> i], Violating)
        IN /\ Len(result.errors) = Len(violating)
           /\ \A k \in 1..Len(violating) :
                 /\ result.errors[k].field = schema.fields[violating[k]].name
                 /\ result.errors[k].message =
                       RuleViolated(schema.fields[violating[k]],
                                    RawOf(schema.fields[violating[k]].name))
           /\ \A i \in 1..Len(schema.fields) :
                 LET name == schema.fields[i].name
                     alone == buildRecordFromForm(OnlyField(schema, i), formValues)
                 IN /\ name \in DOMAIN result.record.v <=> name \in DOMAIN alone.record.v
                    /\ name \in DOMAIN result.record.v =>
                          result.record.v[name] = alone.record.v[name]
                    /\ (\E k \in 1..Len(result.errors) : result.errors[k].field = name)
                          <=> alone.errors # <<>>

\* two fields were reported, the first for a value that does not fit its type
C17_Witness ==
    /\ pc = "returned"
    /\ Len(result.errors) = 2
    /\ result.errors[1].message # "is required."
    /\ result.errors[1].field = schema.fields[1].name
    /\ result.errors[2].field = schema.fields[2].name

\* the messages that errors holds for the field
MessagesFor(name) ==
    SelectSeq(result.errors, LAMBDA e : e.field = name)

\* Boolean(raw) is false: absent, false or the empty string
FalsyRaw(raw) == raw \in {Undefined, Null, Bool(FALSE), Str(<<>>)}

\* C18: for every non-boolean field whose raw value is absent, not a string,
\* empty or white space only, the record gets no key (never an empty string),
\* with one 'is required' error if the field is required and no error
\* otherwise; every boolean field is present in the record as a boolean, never
\* produces an error, even when required, and is false when the raw value is
\* absent or falsy.
C18_BlankInput ==
    pc = "returned" =>
        \A i \in 1..Len(schema.fields) :
            LET field == schema.fields[i]
                raw == RawOf(field.name)
            IN /\ (field.type # T_boolean /\ BlankRaw(raw)) =>
                     /\ field.name \notin DOMAIN result.record.v
                     /\ MessagesFor(field.name) =
                           IF field.required = Bool(TRUE)
                           THEN <<[field |-> field.name, message |-> "is required."]>>
                           ELSE <<>>
               /\ field.type = T_boolean =>
                     /\ field.name \in DOMAIN result.record.v
                     /\ result.record.v[field.name].t = "bool"
                     /\ MessagesFor(field.name) = <<>>
                     /\ FalsyRaw(raw) => result.record.v[field.name] = Bool(FALSE)
               /\ field.name \in DOMAIN result.record.v =>
                     result.record.v[field.name] # Str(<<>>)

\* the value fits the type of the field, as a record built from the form must
FitsType(field, value) ==
    CASE field.type = T_boolean -> value.t = "bool"
      [] field.type = T_number -> value.t = "num"
      [] field.type = T_choice ->
            \E k \in 1..Len(field.options.v) : field.options.v[k] = value
      [] field.type = T_date -> value.t = "str" /\ isValidDate(value.v)
      [] field.type = T_time -> value.t = "str" /\ isValidTime(value.v)
      [] field.type = T_text ->
            /\ value.t = "str"
            /\ Len(value.v) > 0
            /\ ~IsSpace(value.v[1])
            /\ ~IsSpace(value.v[Len(value.v)])

\* C19: whenever buildRecordFromForm returns with errors empty, every key of
\* the record is a declared field name, every required field that is not
\* boolean is present, and every present value fits its field's type: a
\* boolean, a number that is not NaN, one of the declared options exactly, a
\* string accepted by the date check, by the time check, a trimmed string that
\* is not empty.
C19_RecordConforms ==
    (pc = "returned" /\ result.errors = <<>>) =>
        /\ DOMAIN result.record.v \subseteq FieldNames(schema)
        /\ \A i \in 1..Len(schema.fields) :
              LET field == schema.fields[i]
              IN /\ (field.required = Bool(TRUE) /\ field.type # T_boolean) =>
                       field.name \in DOMAIN result.record.v
                 /\ field.name \in DOMAIN result.record.v =>
                       FitsType(field, result.record.v[field.name])

\* a record of a choice taken from text with white space around it and of a
\* required number was built without errors
C19_Witness ==
    /\ pc = "returned"
    /\ result.errors = <<>>
    /\ Len(schema.fields) = 2
    /\ RawOf(<<"c">>) = Str(<<" ", "y", " ">>)
    /\ RawOf(<<"n">>) = Str(<<" ", "1">>)
    /\ result.record = Obj(<<"c">> :> Str(<<"y">>) @@ <<"n">> :> Num(1))

-----------------------------------------------------------------------------
(* Claims about isValidDate (SpecDate) *)

\* the calendar, written down without Date: four, two and two digits that name
\* a month 1..12 and a day of that month, February having 29 days in the years
\* divisible by 4 that are not centuries, and in the centuries divisible by 400
GregorianLeap(y) == IF y % 100 = 0 THEN y % 400 = 0 ELSE y % 4 = 0
GregorianLength(y, m) ==
    CASE m \in {1, 3, 5, 7, 8, 10, 12} -> 31
      [] m \in {4, 6, 9, 11} -> 30
      [] m = 2 -> IF GregorianLeap(y) THEN 29 ELSE 28
      [] OTHER -> 0
HasDateShape(t) ==
    /\ Len(t) = 10
    /\ \A i \in 1..10 : IF i \in {5, 8} THEN t[i] = "-" ELSE IsDigit(t[i])
NamesGregorianDay(t) ==
    /\ HasDateShape(t)
    /\ LET y == DecimalValue(SubSeq(t, 1, 4))
           m == DecimalValue(SubSeq(t, 6, 7))
           d == DecimalValue(SubSeq(t, 9, 10))
       IN d >= 1 /\ d <= GregorianLength(y, m)

\* C20: isValidDate accepts a text if and only if it has the form YYYY-MM-DD and
\* names a day that exists in the Gregorian calendar, for every year 0000-9999,
\* with the leap-year rule applied
C20_CalendarExact ==
    pc = "returned" => (result = Bool(NamesGregorianDay(arg)))

-----------------------------------------------------------------------------
(* Claims about isValidTime (SpecTime) *)

\* the times of the day, written down one by one: HH:MM or HH:MM:SS of an hour
\* 0..23, a minute 0..59 and, if given, a second 0..59
NamesTimeOfDay(t) ==
    /\ Len(t) \in {5, 8}
    /\ \E h \in 0..23 : SubSeq(t, 1, 3) = TwoDigits(h) \o <<":">>
    /\ \E m \in 0..59 : SubSeq(t, 4, 5) = TwoDigits(m)
    /\ Len(t) = 8 => \E sec \in 0..59 : SubSeq(t, 6, 8) = <<":">> \o TwoDigits(sec)

\* C21: isValidTime accepts a text if and only if it is HH:MM or HH:MM:SS with
\* two digits per part, the hour in 0..23, the minute in 0..59 and the second,
\* when present, in 0..59; and a time field stores the accepted text as it was
\* typed (blanks around it removed), without seconds added
C21_TimeExact ==
    /\ pc = "validated" => result = Bool(NamesTimeOfDay(arg))
    /\ (pc = "coerced" /\ NamesTimeOfDay(Trim(arg))) => result = Assign(Str(Trim(arg)))
    /\ (pc = "coerced" /\ result.kind = "assign") => NamesTimeOfDay(result.value.v)

\* 08:30 has been accepted and stored in its five characters
C21_Witness ==
    /\ pc = "coerced"
    /\ arg = Time_08_30
    /\ result = Assign(Str(<<"0", "8", ":", "3", "0">>))

-----------------------------------------------------------------------------
(* Claims about filterRecords (SpecFilter) *)

StrictlyIncreasing(seq) == \A i, j \in 1..Len(seq) : i < j => seq[i] < seq[j]
EveryIndex == [i \in 1..Len(records) |-> i - 1]
BlankQuery == \A i \in 1..Len(filterValue) : filterValue[i] = " "

\* C22: filterRecords returns a strictly increasing sequence of indices, each
\* within 0..length-1, and does not modify the records; for an empty or
\* whitespace-only query the result is all indices 0..length-1
C22_IndicesInOrder ==
    /\ [](pc = "returned" =>
            /\ StrictlyIncreasing(filteredIndices)
            /\ \A i \in 1..Len(filteredIndices) :
                  filteredIndices[i] \in 0..(Len(records) - 1)
            /\ BlankQuery => filteredIndices = EveryIndex)
    /\ [][records' = records]_vars

\* a query that one of two records matches has returned the index of the second
C22_Witness ==
    /\ pc = "returned"
    /\ Len(records) = 2
    /\ filteredIndices = <<1>>
    /\ ~BlankQuery

\* the query as filterRecords reads it: without the blanks around it, cut at
\* its first colon when at least one character stands before it
QueryText == Trim(filterValue)
ColonPositions == {i \in 1..Len(QueryText) : QueryText[i] = ":"}
FirstColon == IF ColonPositions = {} THEN 0 ELSE Min(ColonPositions)
IsFieldQuery == FirstColon > 1
QueryField == ToLowerCase(Trim(SubSeq(QueryText, 1, FirstColon - 1)))
QuerySubstring == ToLowerCase(Trim(SubSeq(QueryText, FirstColon + 1, Len(QueryText))))
DeclaredAs(name) == \E i \in 1..Len(schema.fields) : ToLowerCase(schema.fields[i].name) = name

\* C23 as stated: for every query whose first ':' stands after at least one
\* character and whose field part, trimmed and compared case-insensitively,
\* matches no declared field name, filterRecords returns the empty sequence
C23_UnknownFieldEmpty ==
    (pc = "returned" /\ IsFieldQuery /\ ~DeclaredAs(QueryField)) => filteredIndices = <<>>

\* C23, amended: such a query returns the empty sequence when the part after
\* the colon is not blank, and every index when it is blank
C23_UnknownFieldEmptyUnlessBlankValue ==
    (pc = "returned" /\ IsFieldQuery /\ ~DeclaredAs(QueryField)) =>
        filteredIndices = IF QuerySubstring = <<>> THEN EveryIndex ELSE <<>>

\* an undeclared field with a text that a record holds has returned nothing
C23_Witness ==
    /\ pc = "returned"
    /\ filterValue = <<"n", "o", "p", "e", ":", "b">>
    /\ Len(records) = 2
    /\ \E i \in 1..2 : Get(records[i], <<"T", "i", "t", "l", "e">>) = Str(<<"A", "b">>)
    /\ \E i \in 1..Len(schema.fields) : schema.fields[i].name = <<"T", "i", "t", "l", "e">>
    /\ filteredIndices = <<>>

\* the record holds a value for the field, and the text of that value contains
\* the part, letters compared without their case
HoldsText(rec, name, part) ==
    /\ name \in DOMAIN rec.v
    /\ rec.v[name].t \notin {"undefined", "null"}
    /\ Includes(ToLowerCase(ToStringValue(rec.v[name])), part)

\* the declared field that the field part of the query names: the first one, in
\* the order of the schema, whose name equals it up to case
QueryFieldName ==
    schema.fields[Min({i \in 1..Len(schema.fields) :
                          ToLowerCase(schema.fields[i].name) = QueryField})].name
InQueryField(i) == HoldsText(records[i + 1], QueryFieldName, QuerySubstring)

\* C24: for a query f:s split at its first ':' where f matches a declared field
\* F case-insensitively, the result is all indices if s is empty after trimming,
\* and otherwise exactly the indices of the records whose value for F is present
\* and whose string form contains s, compared case-insensitively
C24_FieldScoped ==
    (pc = "returned" /\ IsFieldQuery /\ DeclaredAs(QueryField)) =>
        filteredIndices = IF QuerySubstring = <<>> THEN EveryIndex
                          ELSE SelectSeq(EveryIndex, InQueryField)

IsGlobalQuery == QueryText # <<>> /\ ColonPositions \subseteq {1}
InDeclaredField(i) ==
    \E k \in 1..Len(schema.fields) :
        HoldsText(records[i + 1], schema.fields[k].name, ToLowerCase(QueryText))

\* C25: for a non-empty query with no ':' after its first character,
\* filterRecords returns exactly the indices of the records for which at least
\* one declared field has a present value whose string form contains the query
\* case-insensitively; an absent value never matches, and keys that are not
\* declared fields are never searched
C25_GlobalSearch ==
    (pc = "returned" /\ IsGlobalQuery) =>
        filteredIndices = SelectSeq(EveryIndex, InDeclaredField)

-----------------------------------------------------------------------------
(* Claims about a file rewritten by another process (SpecExternal) *)

SessionStep == result' = result
MutationStep == records' # records \/ (status' \in Mutations /\ status' # status)
OtherSections(d) == DOMAIN d \ {schema.name, REQMAN_META_TABLE}

\* C26: if another process rewrites the file after the session loaded it, the
\* next create, update or delete still succeeds without a re-read, and
\* afterwards the file holds exactly the session's in-memory document (its
\* records, its embedded schema and the other sections read at load time), so
\* that the external changes are lost
C26_ExternalChangesOverwritten ==
    /\ []((pc = "running" /\ result # Undefined /\ file # result) =>
             /\ file = stringifyToml(data)
             /\ PersistedConsistent)
    /\ [][(pc = "running" /\ SessionStep /\ MutationStep) =>
             /\ file' = stringifyToml(data')
             /\ OtherSections(data') = OtherSections(data)
             /\ \A k \in OtherSections(data) : data'[k] = data[k]]_vars

\* the other process replaced the file by a document with another section, and
\* a record added by the session afterwards is in the file, without that section
C26_Witness ==
    /\ pc = "running"
    /\ result \in ExternalFiles
    /\ result.kind = "toml"
    /\ status = "Added record"
    /\ file # result
    /\ file = stringifyToml(data)
    /\ file.kind = "toml"
    /\ <<"o">> \notin DOMAIN file.doc

-----------------------------------------------------------------------------
(* Claims about the ref of modelsdev (SpecRef) *)

HasSlash(t) == \E i \in 1..Len(t) : t[i] = "/"

\* C27: in 'models show' and 'models add' a ref that contains '/' is split at
\* its first '/' only: the provider id is the part before it, which holds no
\* '/', and the model id is everything after it, so that joining the two with
\* '/' gives back the ref; a ref without '/' is a model id with no provider
C27_RefSplitAtFirstSlash ==
    pc \in {"shown", "added"} =>
        IF HasSlash(arg)
        THEN /\ result.providerId.t = "str"
             /\ ~HasSlash(result.providerId.v)
             /\ result.modelId.t = "str"
             /\ modelRef(result.providerId.v, result.modelId.v) = arg
        ELSE result = [providerId |-> Undefined, modelId |-> Str(arg)]

\* 'models add' has split a ref with two '/' into a provider and a model id
\* that holds the second
C27_Witness ==
    /\ pc = "added"
    /\ arg = <<"a", "/", "b", "/", "a">>
    /\ result = [providerId |-> Str(<<"a">>), modelId |-> Str(<<"b", "/", "a">>)]

-----------------------------------------------------------------------------
(* Claims about delete, the index pointers and an unchanged edit (Spec) *)

\* a delete request completes: deleteRecord leaves its message
DeleteCompletes ==
    /\ pc = "running" /\ mode = "list"
    /\ status' = "Deleted record"
    /\ status' # status \/ records' # records

\* C28: when a record is selected, delete removes the record at index
\* filteredIndices[list position] of the full record sequence and no other, also
\* under an active filter; the remaining records keep their relative order, the
\* length drops by 1, and the new sequence is saved before the handler returns
C28_DeleteRemovesSelection ==
    [][ DeleteCompletes =>
          /\ selectedRecordIndex # NoIndex
          /\ listIndex \in 0..(Len(filteredIndices) - 1)
          /\ selectedRecordIndex = filteredIndices[listIndex + 1]
          /\ Len(records') = Len(records) - 1
          /\ \A j \in 1..Len(records') :
                records'[j] = records[IF j <= selectedRecordIndex THEN j ELSE j + 1]
          /\ file'.kind = "toml"
          /\ JsValue(file'.doc[schema.name]) = Arr(records')
      ]_vars

\* under a filter that shows the second of two records only, that record was
\* deleted: the first one is left, in memory and in the file
C28_Witness ==
    /\ pc = "running"
    /\ status = "Deleted record"
    /\ filterValue = <<"A", ":", "1">>
    /\ records = <<Rec_a2>>
    /\ filteredIndices = <<>>
    /\ file.kind = "toml"
    /\ JsValue(file.doc[schema.name]) = Arr(<<Rec_a2>>)

InRange(index) == index \in 0..(Len(records) - 1)
Displayed == {filteredIndices[i] : i \in 1..Len(filteredIndices)}

\* C29: in every state between two event handlers, selectedRecordIndex is
\* either null or an in-range index of the record sequence that is also a member
\* of filteredIndices, every member of filteredIndices is in range, and whenever
\* the mode is 'edit' editingIndex is an in-range index of the record sequence
C29_IndexPointersValid ==
    pc = "running" =>
        /\ selectedRecordIndex = NoIndex
              \/ (InRange(selectedRecordIndex) /\ selectedRecordIndex \in Displayed)
        /\ \A index \in Displayed : InRange(index)
        /\ mode = "edit" => (editingIndex # NoIndex /\ InRange(editingIndex))

\* the second of two records is being edited while a filter shows it alone
C29_Witness ==
    /\ pc = "running"
    /\ mode = "edit"
    /\ Len(records) = 2
    /\ filterValue # <<>>
    /\ filteredIndices = <<1>>
    /\ selectedRecordIndex = 1
    /\ editingIndex = 1

-----------------------------------------------------------------------------
(* Claims about an edit without changes (SpecEdit) *)

\* C30: for every record that buildRecordFromForm can return with no errors
\* (including records in which an optional field is absent), opening that record
\* for edit and saving at once, with no input changed, leaves records[index]
\* equal to the original record (same keys, same values)
C30_UnchangedEditIsIdentity ==
    [][SaveCompletes => records' = records]_vars

====
